---------------------------- MODULE Spec2Model ----------------------------
(***************************************************************************)
(* Model of the feature-extraction pipeline of                             *)
(* nd3-py-machine-learning/csv_tf/train_features.py, of the scalers of the *)
(* chapter scripts of nd3-py-machine-learning/codes, and of the signal     *)
(* synthesis of python-matplotlib (example.py, signal_visualizer.py), with *)
(* the pages, the handlers and the port search of signal_visualizer.py.    *)
(*                                                                         *)
(* Numbers.  Samples are integers.  The statistics numpy derives from them *)
(* are kept exact: a value is a record                                     *)
(*     [kind |-> "rat",  n, d]   the rational n/d, d > 0, in lowest terms  *)
(*     [kind |-> "sqrt", n, d]   the irrational root sqrt(n/d), n/d > 0    *)
(*     [kind |-> "nan",  ...]    numpy's nan                               *)
(*     [kind |-> "raise", ...]   the call raised ValueError                *)
(* so that equal values are equal records.  Binary64 rounding is not       *)
(* modelled; on integer samples of this size numpy's sums are exact.       *)
(***************************************************************************)
EXTENDS Integers, Sequences, FiniteSets, TLC

VARIABLES
    sequence,     \* the ndarray handed to extract_features_from_sequence
    features,     \* what the last call returned / raised ("idle" before)
    returned,     \* the calls made so far: generator state at the call, outcome
    np_random,    \* numpy's global generator: the seed and the draws since
    fs_exists,    \* os.path.exists(directory)
    fs_root,      \* the directory's entries: name -> [is_dir, files: name -> content]
    pc,           \* where load_csv_data_with_features stands
    condition_dirs, \* the subdirectories in the order iterdir() gave them
    dirs_left,    \* sorted(condition_dirs) not yet iterated; its head is current
    csv_files,    \* the current directory's sorted csv files not yet read
    label,        \* condition_mapping[condition] of the current directory
    X_list,       \* feature rows appended so far
    y_list,       \* labels appended so far
    reads,        \* the files pd.read_csv has opened, in order: <<dir, file>>
    stdout,       \* what the loader printed
    loaded,       \* the loader's outcome: running, returned (X, y, names) or raised
    script,       \* the script that standardizes: its file name without .py
    ip,           \* the script's next statement, an index into Statements[script]
    X,            \* the script's feature matrix, one row per sample
    train_idx,    \* the rows of X that make X_train, in X_train's order
    test_idx,     \* the rows of X that make X_test, in X_test's order
    val_idx,      \* the rows of X that Keras holds out for validation
    scaler,       \* the StandardScaler object: fitted, mean_, scale_
    scaler_log,   \* the calls made on scaler, in order: op, rows of X fitted on, params
    pickled,      \* what joblib.dump wrote to the scaler file
    synth,        \* the arguments of the noise synthesis under test
    noisy,        \* what the last synthesis call returned / raised
    synthesized,  \* the synthesis calls made so far: generator before, outcome, generator after
    ch_pc,        \* where the chapter script's data generation stands
    series,       \* the chapter script's arrays made so far: name -> length
    controls,     \* the values of the widgets of each page of the GUI
    plots,        \* what update_plots last wrote to the elements of each page
    globals,      \* the page whose widgets and elements the module globals name
    timers,       \* the pages whose ui.timer(0.1, update_plots, once=True) is pending
    events,       \* the number of control changes handled
    exported,     \* the figure export_plot last saved
    main_pc,      \* where the __main__ block of signal_visualizer.py stands
    free_ports,   \* the ports of 127.0.0.1 on which a bind would succeed now
    attempts,     \* the binds find_free_port has tried, in order: port, bound
    port,         \* the variable port of the __main__ block: None or a port
    serving       \* the port ui.run was called with

extractVars == <<sequence, features, returned, np_random>>
fsVars == <<fs_exists, fs_root>>
loaderVars == <<pc, condition_dirs, dirs_left, csv_files, label, X_list, y_list,
                reads, stdout, loaded>>
scalerVars == <<script, ip, X, train_idx, test_idx, val_idx, scaler, scaler_log, pickled>>
synthVars == <<synth, noisy, synthesized>>
pageVars == <<controls, plots, globals, timers, events, exported>>
serverVars == <<main_pc, free_ports, attempts, port, serving>>
seriesVars == <<ch_pc, series, pageVars, serverVars>>
vars == <<extractVars, fsVars, loaderVars, scalerVars, synthVars, seriesVars>>

-----------------------------------------------------------------------------
(* Bounds of the model *)

MaxT == 2
MaxAxes == 2
MaxConstT == 10
MaxDraws == 2
MaxEntries == 2
MaxFiles == 2
MaxRows == 3
MaxEvents == 2

SampleValues == {-1, 0, 2}
ConstValues == {-3, 0, 2}
Seeds == {7, 42}

-----------------------------------------------------------------------------
(* Exact arithmetic *)

Abs(i) == IF i < 0 THEN -i ELSE i

RECURSIVE GCD(_, _)
GCD(a, b) == IF b = 0 THEN a ELSE GCD(b, a % b)

Rat(n, d) ==
    LET g == GCD(Abs(n), d)
    IN  [kind |-> "rat", n |-> n \div g, d |-> d \div g]

NaN == [kind |-> "nan", n |-> 0, d |-> 1]
ValueError == [kind |-> "raise", n |-> 0, d |-> 1]

IsRat(v) == v.kind = "rat"

RAdd(a, b) == Rat(a.n * b.d + b.n * a.d, a.d * b.d)
RSub(a, b) == Rat(a.n * b.d - b.n * a.d, a.d * b.d)
RMul(a, b) == Rat(a.n * b.n, a.d * b.d)
RLeq(a, b) == a.n * b.d <= b.n * a.d

IsSquare(k) == \E s \in 0..k : s * s = k
ISqrt(k) == CHOOSE s \in 0..k : s * s = k

RECURSIVE SumSeq(_)
SumSeq(s) == IF s = <<>> THEN 0 ELSE Head(s) + SumSeq(Tail(s))

RECURSIVE RSumSeq(_)
RSumSeq(s) == IF s = <<>> THEN Rat(0, 1) ELSE RAdd(Head(s), RSumSeq(Tail(s)))

RECURSIVE MinSeq(_)
MinSeq(s) ==
    IF Len(s) = 1 THEN Head(s)
    ELSE LET m == MinSeq(Tail(s)) IN IF Head(s) <= m THEN Head(s) ELSE m

RECURSIVE MaxSeq(_)
MaxSeq(s) ==
    IF Len(s) = 1 THEN Head(s)
    ELSE LET m == MaxSeq(Tail(s)) IN IF Head(s) >= m THEN Head(s) ELSE m

-----------------------------------------------------------------------------
(* numpy reductions over a one-dimensional array of samples *)

\* np.sum where np.mean was meant
np_mean_sum(x) == IF Len(x) = 0 THEN NaN ELSE Rat(SumSeq(x), 1)

\* np.mean: sum / size; an empty array gives nan (with a RuntimeWarning).
np_mean(x) == IF Len(x) = 0 THEN NaN ELSE Rat(SumSeq(x), Len(x))

\* np.var(x, ddof): mean of the squared deviations from the mean, the
\* divisor being size - ddof; a divisor <= 0 gives nan.
np_var(x, ddof) ==
    IF Len(x) = 0 \/ Len(x) - ddof <= 0 THEN NaN
    ELSE LET arrmean == Rat(SumSeq(x), Len(x))
             dev == [i \in 1..Len(x) |-> RSub(Rat(x[i], 1), arrmean)]
             sq == [i \in 1..Len(x) |-> RMul(dev[i], dev[i])]
             total == RSumSeq(sq)
         IN  Rat(total.n, total.d * (Len(x) - ddof))

\* np.sqrt: nan stays nan, a negative argument gives nan.
np_sqrt(v) ==
    IF ~IsRat(v) THEN v
    ELSE IF v.n < 0 THEN NaN
    ELSE IF IsSquare(v.n) /\ IsSquare(v.d) THEN Rat(ISqrt(v.n), ISqrt(v.d))
    ELSE [kind |-> "sqrt", n |-> v.n, d |-> v.d]

\* np.std(x, ddof=1): the sample standard deviation
np_std_ddof1(x) == np_sqrt(np_var(x, 1))

\* np.std: ddof defaults to 0, the population standard deviation.
np_std(x) == np_sqrt(np_var(x, 0))

\* np.min / np.max raise ValueError on a zero-size array.
np_min(x) == IF Len(x) = 0 THEN ValueError ELSE Rat(MinSeq(x), 1)
np_max(x) == IF Len(x) = 0 THEN ValueError ELSE Rat(MaxSeq(x), 1)

\* axis_data where axis_data**2 was meant
np_square_dropped(x) == x

\* axis_data**2
np_square(x) == [i \in 1..Len(x) |-> x[i] * x[i]]

\* b - a where a - b was meant
np_sub_reversed(a, b) ==
    IF a.kind = "raise" \/ b.kind = "raise" THEN ValueError
    ELSE IF ~IsRat(a) \/ ~IsRat(b) THEN NaN
    ELSE RSub(b, a)

\* a - b on two scalars
np_sub(a, b) ==
    IF a.kind = "raise" \/ b.kind = "raise" THEN ValueError
    ELSE IF ~IsRat(a) \/ ~IsRat(b) THEN NaN
    ELSE RSub(a, b)

-----------------------------------------------------------------------------
(* extract_features_from_sequence *)

\* An ndarray of shape (time_steps, n_features): data[t][a].
NDArray(T, A, rows) == [shape |-> <<T, A>>, data |-> rows]

\* sequence[:, axis_idx]
axis_data(seq, axis_idx) ==
    [t \in 1..seq.shape[1] |-> seq.data[t][axis_idx]]

\* The six appends with maximum and minimum appended in the other order.
AxisFeaturesMaxFirst(x) ==
    << np_mean(x),
       np_std(x),
       np_max(x),
       np_min(x),
       np_sqrt(np_mean(np_square(x))),
       np_sub(np_max(x), np_min(x)) >>

\* The six appends of one loop iteration, in the order of the code.
AxisFeatures(x) ==
    << np_mean(x),
       np_std(x),
       np_min(x),
       np_max(x),
       np_sqrt(np_mean(np_square(x))),
       np_sub(np_max(x), np_min(x)) >>

RECURSIVE AllAxes(_, _)
AllAxes(seq, k) ==
    IF k = 0 THEN <<>>
    ELSE AllAxes(seq, k - 1) \o AxisFeatures(axis_data(seq, k))

\* The call with the reductions' exceptions swallowed: nan in their place.
extract_features_swallowing(seq) ==
    LET feats == AllAxes(seq, seq.shape[2])
    IN  [outcome |-> "return",
         value |-> [i \in 1..Len(feats) |->
                      IF feats[i].kind = "raise" THEN NaN ELSE feats[i]]]

\* The call: the feature array, or the exception that left the function.
extract_features_from_sequence(seq) ==
    LET feats == AllAxes(seq, seq.shape[2])
    IN  IF \E i \in 1..Len(feats) : feats[i].kind = "raise"
        THEN [outcome |-> "ValueError", value |-> <<>>]
        ELSE [outcome |-> "return", value |-> feats]

-----------------------------------------------------------------------------
(* Inputs *)

Rows(T, A) == [1..T -> [1..A -> SampleValues]]

\* The 4x1 scenario window [[1],[2],[3],[4]].
ScenarioWindow == NDArray(4, 1, << <<1>>, <<2>>, <<3>>, <<4>> >>)

\* w is a window of shape (T, 1) whose samples all equal one of ConstValues
ConstantWindow(w) ==
    \E T \in 1..MaxConstT, c \in ConstValues : w = NDArray(T, 1, [t \in 1..T |-> <<c>>])

\* w is a window of shape (0, A)
EmptyWindow(w) == \E A \in 1..MaxAxes : w = NDArray(0, A, <<>>)

\* w is any window of at most MaxT time steps and MaxAxes axes
GeneralWindow(w) ==
    \E T \in 0..MaxT, A \in 1..MaxAxes : \E r \in Rows(T, A) : w = NDArray(T, A, r)

Idle == [outcome |-> "idle", value |-> <<>>]

-----------------------------------------------------------------------------
(* numpy's global generator.  Its state is determined by the last seed and *)
(* the number of samples drawn since.                                      *)

\* np.random.seed(s)
np_random_seed(s) == [seed |-> s, pos |-> 0]

\* np.random.normal(...) of `size` samples: consumes `size` draws.
np_random_advance(g, size) == [g EXCEPT !.pos = @ + size]

RngStates == [seed : Seeds, pos : 0..MaxDraws]

-----------------------------------------------------------------------------
(* Names.  A name is a string; ord gives the code points of its characters, *)
(* by which Python orders and matches strings.                             *)

ord ==
      ("normal" :> <<110, 111, 114, 109, 97, 108>>)
   @@ ("bearing" :> <<98, 101, 97, 114, 105, 110, 103>>)
   @@ ("misalignment" :> <<109, 105, 115, 97, 108, 105, 103, 110, 109, 101, 110, 116>>)
   @@ ("imbalance" :> <<105, 109, 98, 97, 108, 97, 110, 99, 101>>)
   @@ ("unknown_condition" :> <<117, 110, 107, 110, 111, 119, 110, 95, 99, 111, 110, 100, 105, 116, 105, 111, 110>>)
   @@ ("README.md" :> <<82, 69, 65, 68, 77, 69, 46, 109, 100>>)
   @@ ("s1.csv" :> <<115, 49, 46, 99, 115, 118>>)
   @@ ("s2.csv" :> <<115, 50, 46, 99, 115, 118>>)
   @@ ("notes.txt" :> <<110, 111, 116, 101, 115, 46, 116, 120, 116>>)

dot_csv == <<46, 99, 115, 118>>

\* str.__lt__: the first differing character decides, a proper prefix is less.
RECURSIVE CodesLess(_, _)
CodesLess(a, b) ==
    IF b = <<>> THEN FALSE
    ELSE IF a = <<>> THEN TRUE
    ELSE IF Head(a) # Head(b) THEN Head(a) < Head(b)
    ELSE CodesLess(Tail(a), Tail(b))

StrLess(a, b) == CodesLess(ord[a], ord[b])

\* sorted() left out: the list as it came
unsorted(names) == names

RECURSIVE InsertSorted(_, _)
InsertSorted(x, s) ==
    IF s = <<>> THEN <<x>>
    ELSE IF StrLess(Head(s), x) THEN <<Head(s)>> \o InsertSorted(x, Tail(s))
    ELSE <<x>> \o s

\* sorted(paths) of paths under one parent: ascending by name
RECURSIVE sorted(_)
sorted(names) ==
    IF names = <<>> THEN <<>> ELSE InsertSorted(Head(names), sorted(Tail(names)))

\* fnmatch of a name against "*.csv"
MatchesStarCsv(name) ==
    LET c == ord[name]
    IN  /\ Len(c) >= Len(dot_csv)
        /\ SubSeq(c, Len(c) - Len(dot_csv) + 1, Len(c)) = dot_csv

-----------------------------------------------------------------------------
(* The file system under the directory given to the loader                 *)

DirNames == {"normal", "bearing", "misalignment", "imbalance", "unknown_condition"}
RootFileNames == {"README.md"}
FileNames == {"s1.csv", "s2.csv", "notes.txt"}

SubsetsUpTo(S, k) == {T \in SUBSET S : Cardinality(T) <= k}

DirEntry(files) == [is_dir |-> TRUE, files |-> files]
FileEntry == [is_dir |-> FALSE, files |-> <<>>]

\* What a file holds: text that parses as a csv table with the named
\* columns, or text that does not.
CsvFile(columns, table) == [parses |-> TRUE, columns |-> columns, table |-> table]
Garbage == [parses |-> FALSE, columns |-> <<>>, table |-> [shape |-> <<0, 0>>, data |-> <<>>]]

\* What the files of the tree hold.  A csv file holds two rows of the
\* columns ax, ay, az, different for every directory and file name; any
\* other file is no table.
DirSample == ("normal" :> 0) @@ ("bearing" :> 1) @@ ("misalignment" :> 2)
                @@ ("unknown_condition" :> 3) @@ ("imbalance" :> 4)
FileSample == ("s1.csv" :> 1) @@ ("s2.csv" :> 2)
NoTable == NDArray(0, 0, <<>>)
Content(dir, file) ==
    IF MatchesStarCsv(file)
    THEN CsvFile(<<"ax", "ay", "az">>,
                 NDArray(2, 3, << <<DirSample[dir], FileSample[file], -1>>,
                                  <<DirSample[dir] + FileSample[file], 0, 2>> >>))
    ELSE Garbage

\* fs is a tree with at most MaxEntries entries and MaxFiles files per
\* directory; a name of DirNames is a directory, a name of RootFileNames a file
FileSystem(fs) ==
    \E names \in SubsetsUpTo(DirNames \cup RootFileNames, MaxEntries) :
        \E held \in [names \cap DirNames -> SubsetsUpTo(FileNames, MaxFiles)] :
            fs = [n \in names |->
                    IF n \in DirNames THEN DirEntry([f \in held[n] |-> Content(n, f)])
                    ELSE FileEntry]

\* the orders in which the operating system may enumerate a set of names
Enumerations(S) ==
    {e \in [1..Cardinality(S) -> S] : \A i, j \in 1..Cardinality(S) : e[i] = e[j] => i = j}

RECURSIVE SelectSeq2(_, _)
SelectSeq2(s, keep) ==
    IF s = <<>> THEN <<>>
    ELSE IF Head(s) \in keep THEN <<Head(s)>> \o SelectSeq2(Tail(s), keep)
    ELSE SelectSeq2(Tail(s), keep)

\* pd.read_csv(filepath): the data frame, or the parser's exception
pd_read_csv(fs, dir, file) ==
    IF fs[dir].files[file].parses
    THEN [outcome |-> "return", value |-> fs[dir].files[file]]
    ELSE [outcome |-> "ParserError", value |-> Garbage]

\* the position of column c in the data frame df
ColumnIndex(df, c) == CHOOSE k \in 1..Len(df.columns) : df.columns[k] = c

\* df[cols].values: the named columns in the order asked for, or KeyError
\* when df lacks one of them
df_getitem_values(df, cols) ==
    IF \E k \in 1..Len(cols) : \A j \in 1..Len(df.columns) : df.columns[j] # cols[k]
    THEN [outcome |-> "KeyError", value |-> NoTable]
    ELSE [outcome |-> "return",
          value |-> NDArray(df.table.shape[1], Len(cols),
                            [t \in 1..df.table.shape[1] |->
                               [k \in 1..Len(cols) |-> df.table.data[t][ColumnIndex(df, cols[k])]]])]

\* pd.read_csv(filepath)[['ax', 'ay', 'az']].values
read_csv_axes(fs, dir, file) ==
    LET df == pd_read_csv(fs, dir, file)
    IN  IF df.outcome # "return" THEN [outcome |-> df.outcome, value |-> NoTable]
        ELSE df_getitem_values(df.value, <<"ax", "ay", "az">>)

-----------------------------------------------------------------------------
(* load_csv_data_with_features                                             *)

\* The classes numbered in alphabetical order of their names.
condition_mapping_alphabetical ==
    ("bearing" :> 0) @@ ("imbalance" :> 1) @@ ("misalignment" :> 2) @@ ("normal" :> 3)

condition_mapping ==
    ("normal" :> 0) @@ ("bearing" :> 1) @@ ("misalignment" :> 2) @@ ("imbalance" :> 3)

\* condition_mapping.keys(): a dict keeps its keys in insertion order
condition_mapping_keys == <<"normal", "bearing", "misalignment", "imbalance">>

Running == [outcome |-> "running", X |-> <<>>, y |-> <<>>, condition_names |-> <<>>]
Raised(what) == [outcome |-> what, X |-> <<>>, y |-> <<>>, condition_names |-> <<>>]

\* The existence check left out: straight on to iterdir().
LoadCheckExistsSkipped ==
    /\ pc = "check_exists"
    /\ pc' = "list_dirs"
    /\ UNCHANGED <<condition_dirs, dirs_left, csv_files, label, X_list, y_list,
                   reads, stdout, loaded>>
    /\ UNCHANGED <<extractVars, fsVars>>
    /\ UNCHANGED <<scalerVars, synthVars, seriesVars>>

\* if not os.path.exists(directory): raise ValueError(... does not exist!)
LoadCheckExists ==
    /\ pc = "check_exists"
    /\ IF ~fs_exists
       THEN pc' = "raised" /\ loaded' = Raised("ValueError: directory does not exist")
       ELSE pc' = "list_dirs" /\ UNCHANGED loaded
    /\ UNCHANGED <<condition_dirs, dirs_left, csv_files, label, X_list, y_list,
                   reads, stdout>>
    /\ UNCHANGED <<extractVars, fsVars>>
    /\ UNCHANGED <<scalerVars, synthVars, seriesVars>>

\* condition_dirs = [d for d in base_path.iterdir() if d.is_dir()], the raise
\* when it is empty, the empty lists, and the sorted() the loop iterates over
LoadListDirs ==
    /\ pc = "list_dirs"
    /\ \E e \in Enumerations(DOMAIN fs_root) :
         condition_dirs' = SelectSeq2(e, {n \in DOMAIN fs_root : fs_root[n].is_dir})
    /\ IF condition_dirs' = <<>>
       THEN /\ pc' = "raised"
            /\ loaded' = Raised("ValueError: no condition subdirectories")
            /\ UNCHANGED dirs_left
       ELSE /\ pc' = "next_dir"
            /\ dirs_left' = sorted(condition_dirs')
            /\ UNCHANGED loaded
    /\ X_list' = <<>> /\ y_list' = <<>>
    /\ UNCHANGED <<csv_files, label, reads, stdout>>
    /\ UNCHANGED <<extractVars, fsVars>>
    /\ UNCHANGED <<scalerVars, synthVars, seriesVars>>

\* the loop's next directory is not in condition_mapping: warn and continue
LoadSkipUnknown ==
    /\ pc = "next_dir" /\ dirs_left # <<>>
    /\ Head(dirs_left) \notin DOMAIN condition_mapping
    /\ stdout' = Append(stdout, [msg |-> "warning", name |-> Head(dirs_left), count |-> 0])
    /\ dirs_left' = Tail(dirs_left)
    /\ UNCHANGED <<pc, condition_dirs, csv_files, label, X_list, y_list, reads, loaded>>
    /\ UNCHANGED <<extractVars, fsVars>>
    /\ UNCHANGED <<scalerVars, synthVars, seriesVars>>

\* csv_files = sorted(condition_dir.glob("*.csv")); label = condition_mapping[..]
LoadGlob ==
    /\ pc = "next_dir" /\ dirs_left # <<>>
    /\ Head(dirs_left) \in DOMAIN condition_mapping
    /\ LET matching == {f \in DOMAIN fs_root[Head(dirs_left)].files : MatchesStarCsv(f)}
       IN  \E e \in Enumerations(matching) : csv_files' = sorted(e)
    /\ label' = condition_mapping[Head(dirs_left)]
    /\ pc' = "next_file"
    /\ UNCHANGED <<condition_dirs, dirs_left, X_list, y_list, reads, stdout, loaded>>
    /\ UNCHANGED <<extractVars, fsVars>>
    /\ UNCHANGED <<scalerVars, synthVars, seriesVars>>

\* An iteration that appends the label only with the last file of the
\* directory.
LoadReadFileLabelPerDir ==
    /\ pc = "next_file" /\ csv_files # <<>>
    /\ reads' = Append(reads, <<Head(dirs_left), Head(csv_files)>>)
    /\ LET read == read_csv_axes(fs_root, Head(dirs_left), Head(csv_files))
       IN  IF read.outcome # "return"
           THEN /\ pc' = "raised"
                /\ loaded' = Raised(read.outcome)
                /\ UNCHANGED <<sequence, features, X_list, y_list, csv_files>>
           ELSE /\ sequence' = read.value
                /\ features' = extract_features_from_sequence(sequence')
                /\ IF features'.outcome = "return"
                   THEN /\ X_list' = Append(X_list, features'.value)
                        /\ y_list' = IF Len(csv_files) = 1 THEN Append(y_list, label)
                                     ELSE y_list
                        /\ csv_files' = Tail(csv_files)
                        /\ UNCHANGED <<pc, loaded>>
                   ELSE /\ pc' = "raised"
                        /\ loaded' = Raised(features'.outcome)
                        /\ UNCHANGED <<X_list, y_list, csv_files>>
    /\ UNCHANGED <<condition_dirs, dirs_left, label, stdout>>
    /\ UNCHANGED <<returned, np_random, fsVars>>
    /\ UNCHANGED <<scalerVars, synthVars, seriesVars>>

\* An iteration that drops a file it cannot read or extract from, and goes
\* on with the next.
LoadReadFileSkipping ==
    /\ pc = "next_file" /\ csv_files # <<>>
    /\ reads' = Append(reads, <<Head(dirs_left), Head(csv_files)>>)
    /\ csv_files' = Tail(csv_files)
    /\ LET read == read_csv_axes(fs_root, Head(dirs_left), Head(csv_files))
       IN  IF read.outcome # "return"
           THEN UNCHANGED <<sequence, features, X_list, y_list>>
           ELSE /\ sequence' = read.value
                /\ features' = extract_features_from_sequence(sequence')
                /\ IF features'.outcome = "return"
                   THEN /\ X_list' = Append(X_list, features'.value)
                        /\ y_list' = Append(y_list, label)
                   ELSE UNCHANGED <<X_list, y_list>>
    /\ UNCHANGED <<pc, loaded, condition_dirs, dirs_left, label, stdout>>
    /\ UNCHANGED <<returned, np_random, fsVars>>
    /\ UNCHANGED <<scalerVars, synthVars, seriesVars>>

\* one iteration of `for filepath in csv_files`: read, extract, append both;
\* an exception of the read or of the extractor leaves the loader
LoadReadFile ==
    /\ pc = "next_file" /\ csv_files # <<>>
    /\ reads' = Append(reads, <<Head(dirs_left), Head(csv_files)>>)
    /\ LET read == read_csv_axes(fs_root, Head(dirs_left), Head(csv_files))
       IN  IF read.outcome # "return"
           THEN /\ pc' = "raised"
                /\ loaded' = Raised(read.outcome)
                /\ UNCHANGED <<sequence, features, X_list, y_list, csv_files>>
           ELSE /\ sequence' = read.value
                /\ features' = extract_features_from_sequence(sequence')
                /\ IF features'.outcome = "return"
                   THEN /\ X_list' = Append(X_list, features'.value)
                        /\ y_list' = Append(y_list, label)
                        /\ csv_files' = Tail(csv_files)
                        /\ UNCHANGED <<pc, loaded>>
                   ELSE /\ pc' = "raised"
                        /\ loaded' = Raised(features'.outcome)
                        /\ UNCHANGED <<X_list, y_list, csv_files>>
    /\ UNCHANGED <<condition_dirs, dirs_left, label, stdout>>
    /\ UNCHANGED <<returned, np_random, fsVars>>
    /\ UNCHANGED <<scalerVars, synthVars, seriesVars>>

\* the directory's files are exhausted: print the count, next directory
LoadDirDone ==
    /\ pc = "next_file" /\ csv_files = <<>>
    /\ LET n == Cardinality({f \in DOMAIN fs_root[Head(dirs_left)].files : MatchesStarCsv(f)})
       IN  stdout' = Append(stdout, [msg |-> "extracted", name |-> Head(dirs_left), count |-> n])
    /\ dirs_left' = Tail(dirs_left)
    /\ pc' = "next_dir"
    /\ UNCHANGED <<condition_dirs, csv_files, label, X_list, y_list, reads, loaded>>
    /\ UNCHANGED <<extractVars, fsVars>>
    /\ UNCHANGED <<scalerVars, synthVars, seriesVars>>

\* the loop is over: return X, y, sorted(condition_mapping.keys())
LoadReturn ==
    /\ pc = "next_dir" /\ dirs_left = <<>>
    /\ pc' = "returned"
    /\ loaded' = [outcome |-> "return", X |-> X_list, y |-> y_list,
                  condition_names |-> sorted(condition_mapping_keys)]
    /\ UNCHANGED <<condition_dirs, dirs_left, csv_files, label, X_list, y_list,
                   reads, stdout>>
    /\ UNCHANGED <<extractVars, fsVars>>
    /\ UNCHANGED <<scalerVars, synthVars, seriesVars>>

-----------------------------------------------------------------------------
(* The call of the extractor, and the generator calls a caller may make    *)
(* around it.                                                              *)

\* A call that drew from the global generator on its way.
CallExtractDrawing ==
    /\ features' = extract_features_from_sequence(sequence)
    /\ returned' = returned \cup {[rng |-> np_random, out |-> features']}
    /\ np_random' = np_random_advance(np_random, 1)
    /\ UNCHANGED <<sequence, fsVars, loaderVars>>
    /\ UNCHANGED <<scalerVars, synthVars, seriesVars>>

\* features = extract_features_from_sequence(sequence)
CallExtract ==
    /\ features' = extract_features_from_sequence(sequence)
    /\ returned' = returned \cup {[rng |-> np_random, out |-> features']}
    /\ UNCHANGED <<sequence, np_random, fsVars, loaderVars>>
    /\ UNCHANGED <<scalerVars, synthVars, seriesVars>>

\* np.random.seed(s) somewhere between two calls
SeedRandom ==
    /\ \E s \in Seeds : np_random' = np_random_seed(s)
    /\ UNCHANGED <<sequence, features, returned, fsVars, loaderVars>>
    /\ UNCHANGED <<scalerVars, synthVars, seriesVars>>

\* np.random.normal(...) somewhere between two calls
DrawRandom ==
    /\ np_random.pos < MaxDraws
    /\ np_random' = np_random_advance(np_random, 1)
    /\ UNCHANGED <<sequence, features, returned, fsVars, loaderVars>>
    /\ UNCHANGED <<scalerVars, synthVars, seriesVars>>

-----------------------------------------------------------------------------
(* StandardScaler, and the scripts that standardize their features with    *)
(* one.  Of a script, the statements that touch the scaler or partition    *)
(* the samples are modelled, in the order of the file.  What a transform   *)
(* returns is not modelled, only the parameters it is made with.           *)

\* The rows a feature matrix is made of.
ScalerRows == { <<0, 0, 0, 0>>, <<2, 0, -1, 2>>, <<-1, 2, 2, 0>> }

\* Xd is a feature matrix of two to MaxRows rows
Dataset(Xd) == \E n \in 2..MaxRows : Xd \in [1..n -> ScalerRows]

\* Xd[:, k]
ColumnOf(Xd, k) == [i \in 1..Len(Xd) |-> Xd[i][k]]

\* Xd[:, cols]
TakeColumns(Xd, cols) == [i \in 1..Len(Xd) |-> [k \in 1..Len(cols) |-> Xd[i][cols[k]]]]

\* StandardScaler()
Unfitted == [fitted |-> FALSE, mean_ |-> <<>>, scale_ |-> <<>>]

\* StandardScaler.fit(Xd): the feature-wise mean and population standard
\* deviation of the rows given, a zero deviation being replaced by 1
StandardScaler_fit(Xd) ==
    [fitted |-> TRUE,
     mean_ |-> [k \in 1..Len(Xd[1]) |-> np_mean(ColumnOf(Xd, k))],
     scale_ |-> [k \in 1..Len(Xd[1]) |->
                   IF np_std(ColumnOf(Xd, k)) = Rat(0, 1) THEN Rat(1, 1)
                   ELSE np_std(ColumnOf(Xd, k))]]

Scripts == {"chapter04", "chapter05", "chapter09", "train_features"}

Statements ==
       ("chapter04" :> <<"fit_transform", "train_test_split", "transform">>)
    @@ ("chapter05" :> <<"fit_transform", "train_test_split", "fit_transform_2d">>)
    @@ ("chapter09" :> <<"fit_transform", "train_test_split", "keras_fit">>)
    @@ ("train_features" :> <<"fit_transform", "dump", "keras_fit">>)

\* the script's next statement is stmt
At(stmt) ==
    /\ script \in Scripts
    /\ ip <= Len(Statements[script])
    /\ Statements[script][ip] = stmt

Identity(n) == [i \in 1..n |-> i]

\* scaler = StandardScaler(); X_scaled = scaler.fit_transform(X)
ScalerFitTransform ==
    /\ At("fit_transform")
    /\ scaler' = StandardScaler_fit(X)
    /\ scaler_log' = Append(scaler_log, [op |-> "fit", rows |-> 1..Len(X), params |-> scaler'])
    /\ ip' = ip + 1
    /\ UNCHANGED <<script, X, train_idx, test_idx, val_idx, pickled>>
    /\ UNCHANGED <<extractVars, fsVars, loaderVars, synthVars, seriesVars>>

\* train_test_split(X_scaled, y, test_size=0.2, random_state=42): the rows
\* are permuted, the first ceil(0.2 n) of the permutation are the test set,
\* the others the training set.  The permutation is fixed by random_state
\* but unknown: any one.
TrainTestSplit ==
    /\ At("train_test_split")
    /\ LET n == Len(X)
           n_test == (2 * n + 9) \div 10
       IN  \E permutation \in [1..n -> 1..n] :
             /\ \A i, j \in 1..n : permutation[i] = permutation[j] => i = j
             /\ test_idx' = SubSeq(permutation, 1, n_test)
             /\ train_idx' = SubSeq(permutation, n_test + 1, n)
    /\ ip' = ip + 1
    /\ UNCHANGED <<script, X, val_idx, scaler, scaler_log, pickled>>
    /\ UNCHANGED <<extractVars, fsVars, loaderVars, synthVars, seriesVars>>

\* validation_split=0.2 of model.fit: Keras holds out the rows from index
\* int(len * (1 - 0.2)) on, in the order given, before any shuffling
validation_split(rows) == SubSeq(rows, (Len(rows) * 8) \div 10 + 1, Len(rows))

\* model.fit(X_train, y_train, ..., validation_split=0.2)
KerasFit ==
    /\ At("keras_fit")
    /\ val_idx' = validation_split(train_idx)
    /\ ip' = ip + 1
    /\ UNCHANGED <<script, X, train_idx, test_idx, scaler, scaler_log, pickled>>
    /\ UNCHANGED <<extractVars, fsVars, loaderVars, synthVars, seriesVars>>

\* X_new_scaled = scaler.transform(X_new), X_new generated after training
ScalerTransform ==
    /\ At("transform")
    /\ scaler_log' = Append(scaler_log, [op |-> "transform", rows |-> {}, params |-> scaler])
    /\ ip' = ip + 1
    /\ UNCHANGED <<script, X, train_idx, test_idx, val_idx, scaler, pickled>>
    /\ UNCHANGED <<extractVars, fsVars, loaderVars, synthVars, seriesVars>>

\* X_2d = X[:, [0, 1]]; X_2d_scaled = scaler.fit_transform(X_2d)
ScalerFitTransform2D ==
    /\ At("fit_transform_2d")
    /\ scaler' = StandardScaler_fit(TakeColumns(X, <<1, 2>>))
    /\ scaler_log' = Append(scaler_log, [op |-> "fit", rows |-> 1..Len(X), params |-> scaler'])
    /\ ip' = ip + 1
    /\ UNCHANGED <<script, X, train_idx, test_idx, val_idx, pickled>>
    /\ UNCHANGED <<extractVars, fsVars, loaderVars, synthVars, seriesVars>>

\* joblib.dump(scaler, "models/features_scaler.pkl")
JoblibDump ==
    /\ At("dump")
    /\ pickled' = scaler
    /\ ip' = ip + 1
    /\ UNCHANGED <<script, X, train_idx, test_idx, val_idx, scaler, scaler_log>>
    /\ UNCHANGED <<extractVars, fsVars, loaderVars, synthVars, seriesVars>>

-----------------------------------------------------------------------------
(* Noise synthesis: create_noise of example.py and add_noise of            *)
(* signal_visualizer.py.  A sample of a signal is a record                 *)
(*     [clean |-> c, noise |-> <<draw, ...>>]                              *)
(* that stands for c plus the draws listed; a draw [seed, pos, scale] is   *)
(* scale times the standard normal variate the generator seeded with seed  *)
(* gives at position pos.  A draw of scale 0 is 0 and is not listed, so    *)
(* that equal signals are equal sequences.  Noise levels are in            *)
(* hundredths.                                                             *)

NoiseLevels == {-20, 0, 20}

\* seed=None, and seed=s
None == <<>>
Some(s) == <<s>>

CleanSample(c) == [clean |-> c, noise |-> <<>>]

\* The samples of a square wave of amplitude 2: 2, -2, 2, ...
SquareWave(n) == [i \in 1..n |-> CleanSample(IF i % 2 = 1 THEN 2 ELSE -2)]

\* np.random.normal that takes the absolute value of a negative scale
np_random_normal_abs(g, scale, size) ==
    [outcome |-> "return",
     value |-> [i \in 1..size |->
                  IF scale = 0 THEN CleanSample(0)
                  ELSE [clean |-> 0,
                        noise |-> <<[seed |-> g.seed, pos |-> g.pos + i - 1,
                                     scale |-> Abs(scale)]>>]],
     rng |-> np_random_advance(g, size)]

\* np.random.normal(0, scale, size) with the generator in state g: raises
\* ValueError for scale < 0 and draws nothing, otherwise gives the next
\* `size` variates times scale and leaves the generator advanced by size
np_random_normal(g, scale, size) ==
    IF scale < 0
    THEN [outcome |-> "ValueError", value |-> <<>>, rng |-> g]
    ELSE [outcome |-> "return",
          value |-> [i \in 1..size |->
                       IF scale = 0 THEN CleanSample(0)
                       ELSE [clean |-> 0,
                             noise |-> <<[seed |-> g.seed, pos |-> g.pos + i - 1,
                                          scale |-> scale]>>]],
          rng |-> np_random_advance(g, size)]

\* signal + noise, element by element
add_signal_and_noise(signal, noise) ==
    [i \in 1..Len(signal) |->
        [clean |-> signal[i].clean + noise[i].clean,
         noise |-> signal[i].noise \o noise[i].noise]]

\* add_noise that never seeds
add_noise_unseeded(g, signal, noise_level, seed) ==
    LET drawn == np_random_normal(g, noise_level, Len(signal))
    IN  IF drawn.outcome # "return"
        THEN [outcome |-> drawn.outcome, value |-> <<>>, rng |-> drawn.rng]
        ELSE [outcome |-> "return",
              value |-> add_signal_and_noise(signal, drawn.value),
              rng |-> drawn.rng]

\* add_noise that returns the signal as it is for a noise level of 0
add_noise_zero_special(g, signal, noise_level, seed) ==
    IF noise_level = 0
    THEN [outcome |-> "return", value |-> signal, rng |-> g]
    ELSE LET seeded == IF seed # None THEN np_random_seed(seed[1]) ELSE g
             drawn == np_random_normal(seeded, noise_level, Len(signal))
         IN  IF drawn.outcome # "return"
             THEN [outcome |-> drawn.outcome, value |-> <<>>, rng |-> drawn.rng]
             ELSE [outcome |-> "return",
                   value |-> add_signal_and_noise(signal, drawn.value),
                   rng |-> drawn.rng]

\* add_noise(signal, noise_level, seed) called with the generator in state
\* g: what it returns or raises, and the generator afterwards
add_noise(g, signal, noise_level, seed) ==
    LET seeded == IF seed # None THEN np_random_seed(seed[1]) ELSE g
        drawn == np_random_normal(seeded, noise_level, Len(signal))
    IN  IF drawn.outcome # "return"
        THEN [outcome |-> drawn.outcome, value |-> <<>>, rng |-> drawn.rng]
        ELSE [outcome |-> "return",
              value |-> add_signal_and_noise(signal, drawn.value),
              rng |-> drawn.rng]

\* create_noise(size, noise_level, seed) called with the generator in state g
create_noise(g, size, noise_level, seed) ==
    np_random_normal(np_random_seed(seed[1]), noise_level, size)

\* noisy_signal = add_noise(clean_signal, noise_level, seed)
CallAddNoise ==
    /\ synth.fn = "add_noise"
    /\ synth.seed = None => np_random.pos + Len(synth.signal) <= MaxDraws
    /\ LET r == add_noise(np_random, synth.signal, synth.noise_level, synth.seed)
       IN  /\ noisy' = [outcome |-> r.outcome, value |-> r.value]
           /\ np_random' = r.rng
    /\ synthesized' = synthesized \cup {[rng |-> np_random, out |-> noisy', after |-> np_random']}
    /\ UNCHANGED <<synth, sequence, features, returned>>
    /\ UNCHANGED <<fsVars, loaderVars, scalerVars, seriesVars>>

\* noise = create_noise(len(time), noise_level, seed);
\* noisy_signal = add_signal_and_noise(clean_signal, noise)
CallCreateNoise ==
    /\ synth.fn = "create_noise"
    /\ LET r == create_noise(np_random, Len(synth.signal), synth.noise_level, synth.seed)
       IN  /\ noisy' = [outcome |-> r.outcome,
                        value |-> IF r.outcome = "return"
                                  THEN add_signal_and_noise(synth.signal, r.value)
                                  ELSE <<>>]
           /\ np_random' = r.rng
    /\ synthesized' = synthesized \cup {[rng |-> np_random, out |-> noisy', after |-> np_random']}
    /\ UNCHANGED <<synth, sequence, features, returned>>
    /\ UNCHANGED <<fsVars, loaderVars, scalerVars, seriesVars>>

-----------------------------------------------------------------------------
(* Generated time series.  An array is modelled by its length.  Times and  *)
(* durations are in tenths of a second, frequencies and amplitudes in      *)
(* tenths, noise levels in hundredths.                                     *)

\* len(np.arange(start, stop, step)): ceil((stop - start) / step)
np_arange_len(start, stop, step) ==
    IF stop <= start THEN 0 ELSE (stop - start + step - 1) \div step

\* The length of a + b for arrays of lengths a and b: numpy stretches a
\* length of 1, and raises ValueError for two other lengths that differ (-1).
broadcast_len(a, b) ==
    IF a = b THEN a
    ELSE IF a = 1 THEN b
    ELSE IF b = 1 THEN a
    ELSE -1

\* np.convolve(a, v, mode='full') where mode='same' was meant
np_convolve_full_len(n, m) == IF n = 0 \/ m = 0 THEN -1 ELSE n + m - 1

\* len(np.convolve(a, v, mode='same')) for len(a) = n, len(v) = m: the
\* longer of the two; ValueError for an empty argument (-1)
np_convolve_same_len(n, m) == IF n = 0 \/ m = 0 THEN -1 ELSE IF n >= m THEN n ELSE m

\* The statements of the data generation of a chapter script.  Scales
\* are in hundredths, arange arguments in tenths.
\* np.random.seed(s)
Seed(s) == [op |-> "seed", name |-> "", over |-> "", expr |-> "",
            args |-> <<s>>, of |-> <<>>]
\* name = np.arange(start, stop, step)
Arange(name, start, stop, step) ==
    [op |-> "arange", name |-> name, over |-> "", expr |-> "np.arange",
     args |-> <<start, stop, step>>, of |-> <<>>]
\* name = expr + np.random.normal(0, scale, len(over))
Channel(name, over, expr, scale) ==
    [op |-> "channel", name |-> name, over |-> over, expr |-> expr,
     args |-> <<scale>>, of |-> <<>>]
\* pd.DataFrame({...}) / np.column_stack([...]) of the arrays named
Frame(of) == [op |-> "frame", name |-> "", over |-> "", expr |-> "",
              args |-> <<>>, of |-> of]

chapter01_statements ==
    <<
       Seed(42),
       Arange("time", 0, 1000, 1),
       Channel("temperature", "time", "50 + 0.5 * np.sin(time)", 20),
       Channel("vibration", "time", "1 + 0.1 * np.sin(2*time)", 5),
       Channel("pressure", "time", "100 + 5 * np.sin(0.5*time)", 100),
       Channel("current", "time", "10 + 0.3 * np.sin(time)", 10),
       Frame(<<"time", "temperature", "vibration", "pressure", "current">>)
    >>

chapter02_statements ==
    <<
       Seed(42),
       Arange("time", 0, 1000, 1),
       Channel("temperature", "time", "50 + 0.5 * np.sin(time)", 20),
       Channel("vibration", "time", "1 + 0.1 * np.sin(2*time)", 5),
       Channel("pressure", "time", "100 + 5 * np.sin(0.5*time)", 100),
       Channel("current", "time", "10 + 0.3 * np.sin(time)", 10),
       Frame(<<"time", "temperature", "vibration", "pressure", "current">>)
    >>

\* chapter03.py drawing the vibration noise before the temperature noise
chapter03_statements_vibration_first ==
    <<
       Seed(42),
       Arange("time", 0, 1000, 1),
       Channel("vibration", "time", "1 + 0.1 * np.sin(2*time)", 5),
       Channel("temperature", "time", "50 + 0.5 * np.sin(time)", 20),
       Channel("pressure", "time", "100 + 5 * np.sin(0.5*time)", 100),
       Channel("current", "time", "10 + 0.3 * np.sin(time)", 10),
       Frame(<<"time", "temperature", "vibration", "pressure", "current">>)
    >>

chapter03_statements ==
    <<
       Seed(42),
       Arange("time", 0, 1000, 1),
       Channel("temperature", "time", "50 + 0.5 * np.sin(time)", 20),
       Channel("vibration", "time", "1 + 0.1 * np.sin(2*time)", 5),
       Channel("pressure", "time", "100 + 5 * np.sin(0.5*time)", 100),
       Channel("current", "time", "10 + 0.3 * np.sin(time)", 10),
       Frame(<<"time", "temperature", "vibration", "pressure", "current">>)
    >>

\* chapter04.py: the data set, and the new data it predicts on
chapter04_statements ==
    <<
       Seed(42),
       Arange("time", 0, 1000, 1),
       Channel("temperature", "time", "50 + 0.5 * np.sin(time)", 20),
       Channel("vibration", "time", "1 + 0.1 * np.sin(2*time)", 5),
       Channel("pressure", "time", "100 + 5 * np.sin(0.5*time)", 100),
       Channel("current", "time", "10 + 0.3 * np.sin(time)", 10),
       Frame(<<"time", "temperature", "vibration", "pressure", "current">>),
       Arange("new_time", 1000, 1100, 1),
       Channel("new_vibration", "new_time", "1 + 0.1 * np.sin(2*new_time)", 5),
       Channel("new_pressure", "new_time", "100 + 5 * np.sin(0.5*new_time)", 100),
       Channel("new_current", "new_time", "10 + 0.3 * np.sin(new_time)", 10),
       Channel("new_temperature_actual", "new_time", "50 + 0.5 * np.sin(new_time)", 20),
       Frame(<<"new_time", "new_vibration", "new_pressure", "new_current">>)
    >>

ChapterStatements ==
       ("chapter01" :> chapter01_statements)
    @@ ("chapter02" :> chapter02_statements)
    @@ ("chapter03" :> chapter03_statements)
    @@ ("chapter04" :> chapter04_statements)

NoChapter == [script |-> "none", at |-> 0, frame |-> "none"]

\* The statement the script stands at is one of kind op
AtStatement(op) ==
    /\ ch_pc.script \in DOMAIN ChapterStatements
    /\ ch_pc.at \in 1..Len(ChapterStatements[ch_pc.script])
    /\ ChapterStatements[ch_pc.script][ch_pc.at].op = op

\* What a statement makes of the generator g and of the arrays made so far.
\* An array is [len, expr, args, noise]: the expression it was computed
\* with, and the draws added: [seed, pos, scale, size] stands for scale
\* times the size variates the generator seeded with seed gives from
\* position pos on.
ChapterStep(stmt, g, arrays) ==
    IF stmt.op = "seed"
    THEN [rng |-> np_random_seed(stmt.args[1]), arrays |-> arrays]
    ELSE IF stmt.op = "arange"
    THEN [rng |-> g,
          arrays |-> (stmt.name :>
                        [len |-> np_arange_len(stmt.args[1], stmt.args[2], stmt.args[3]),
                         expr |-> stmt.expr, args |-> stmt.args, noise |-> <<>>])
                     @@ arrays]
    ELSE IF stmt.op = "channel"
    THEN LET time == arrays[stmt.over].len
             drawn == np_random_normal(g, stmt.args[1], time)
         IN  [rng |-> drawn.rng,
              arrays |-> (stmt.name :>
                            [len |-> broadcast_len(time, Len(drawn.value)),
                             expr |-> stmt.expr, args |-> <<>>,
                             noise |-> <<[seed |-> g.seed, pos |-> g.pos,
                                          scale |-> stmt.args[1],
                                          size |-> Len(drawn.value)]>>])
                         @@ arrays]
    ELSE [rng |-> g, arrays |-> arrays]

\* np.random.seed(42)
ChapterSeed ==
    /\ AtStatement("seed")
    /\ np_random' = ChapterStep(ChapterStatements[ch_pc.script][ch_pc.at],
                                np_random, series).rng
    /\ ch_pc' = [ch_pc EXCEPT !.at = @ + 1]
    /\ UNCHANGED <<series, pageVars, serverVars>>
    /\ UNCHANGED <<sequence, features, returned, fsVars, loaderVars, scalerVars, synthVars>>

\* time = np.arange(0, 100, 0.1)
ChapterArange ==
    /\ AtStatement("arange")
    /\ series' = ChapterStep(ChapterStatements[ch_pc.script][ch_pc.at],
                             np_random, series).arrays
    /\ ch_pc' = [ch_pc EXCEPT !.at = @ + 1]
    /\ UNCHANGED <<pageVars, serverVars>>
    /\ UNCHANGED <<extractVars, fsVars, loaderVars, scalerVars, synthVars>>

\* temperature = 50 + 0.5 * np.sin(time) + np.random.normal(0, 0.2, len(time))
\* and the statements like it
ChapterChannel ==
    /\ AtStatement("channel")
    /\ LET step == ChapterStep(ChapterStatements[ch_pc.script][ch_pc.at],
                               np_random, series)
       IN  /\ series' = step.arrays
           /\ np_random' = step.rng
    /\ ch_pc' = [ch_pc EXCEPT !.at = @ + 1]
    /\ UNCHANGED <<pageVars, serverVars>>
    /\ UNCHANGED <<sequence, features, returned, fsVars, loaderVars, scalerVars, synthVars>>

\* df = pd.DataFrame({...}) / X_new = np.column_stack([...]): made of the
\* arrays, ValueError when their lengths differ
ChapterFrame ==
    /\ AtStatement("frame")
    /\ ch_pc.frame # "ValueError"
    /\ LET of == ChapterStatements[ch_pc.script][ch_pc.at].of
       IN  ch_pc' = [ch_pc EXCEPT
                       !.at = @ + 1,
                       !.frame = IF \A i, j \in DOMAIN of :
                                       series[of[i]].len = series[of[j]].len
                                 THEN "made" ELSE "ValueError"]
    /\ UNCHANGED <<series, pageVars, serverVars>>
    /\ UNCHANGED <<extractVars, fsVars, loaderVars, scalerVars, synthVars>>

DEFAULT_PARAMS ==
    [signal_type |-> "Sine", frequency |-> 20, amplitude |-> 10, duration |-> 20,
     sample_rate |-> 1000, noise_enabled |-> TRUE, noise_level |-> 20,
     filter_enabled |-> TRUE, filter_window |-> 20]

\* The value of the sample-rate field is a Python number, or the string
\* reset_to_defaults puts there: str(n) is kept as the number it spells,
\* tagged, and int() gives the number of either.
number(n) == [type |-> "number", value |-> n]
str(n) == [type |-> "str", value |-> n]
int(v) == v.value

\* The values main_page creates the widgets with
InitialValues == [DEFAULT_PARAMS EXCEPT !.sample_rate = number(@)]

\* Values the widgets allow: the ends of each range and the default; of
\* the frequency and the amplitude, on which no length and no branch
\* depends, the default and one end.
WidgetValues ==
    [signal_type |-> {"Sine", "Square", "Sawtooth"},
     frequency |-> {20, 100},
     amplitude |-> {1, 10},
     duration |-> {5, 20, 50},
     sample_rate |-> {number(100), number(1000), number(10000)},
     noise_enabled |-> BOOLEAN,
     noise_level |-> {0, 20, 50},
     filter_enabled |-> BOOLEAN,
     filter_window |-> {5, 20, 50}]

\* An array of the page is a record
\*     [wave, t, frequency, amplitude, noise, window]
\* that stands for the waveform over the grid t, plus the draws listed in
\* noise, smoothed by a moving average of the window (0: not smoothed).
\* t = np.linspace(0, stop, num)
np_linspace(stop, num) == [stop |-> stop, num |-> num]

generate_sine_wave(t, frequency, amplitude) ==
    [wave |-> "amplitude * sin", t |-> t, frequency |-> frequency,
     amplitude |-> amplitude, noise |-> <<>>, window |-> 0]

generate_square_wave(t, frequency, amplitude) ==
    [wave |-> "amplitude * sign(sin)", t |-> t, frequency |-> frequency,
     amplitude |-> amplitude, noise |-> <<>>, window |-> 0]

generate_sawtooth_wave(t, frequency, amplitude) ==
    [wave |-> "amplitude * (phase / pi - 1)", t |-> t, frequency |-> frequency,
     amplitude |-> amplitude, noise |-> <<>>, window |-> 0]

\* add_noise(signal, noise_level, seed) of an array: one draw per sample of
\* the generator seeded with seed (None: as the generator stands); draws of
\* scale 0 are 0 and are not listed
add_noise_array(signal, noise_level, seed) ==
    IF noise_level = 0 THEN signal
    ELSE [signal EXCEPT !.noise = Append(@, [seed |-> seed, scale |-> noise_level])]

\* apply_filter(signal, window_size) of an array
apply_filter(signal, window_size) == [signal EXCEPT !.window = window_size]

\* np.abs(np.fft.fft(signal))[positive_freq_idx], over
\* freqs = np.fft.fftfreq(n_samples, 1/sample_rate)
positive_fft(signal, n_samples, sample_rate) ==
    [fft |-> signal, n |-> n_samples, rate |-> sample_rate]

\* calculate_snr(signal, noise) for noise = a - b: np.inf when the noise
\* power is 0, a finite number of dB else
calculate_snr(a, b) == IF a = b THEN "inf" ELSE "dB"

\* calculate_statistics(signal): the five statistics of the array
calculate_statistics(signal) == [mean_std_min_max_rms |-> signal]

\* create_time_domain_plot: the curves drawn, in order
create_time_domain_plot(time, clean, noisy_sig, filtered, signal_type, noise_enabled, filter_enabled) ==
    [title |-> signal_type,
     curves |-> <<[label |-> "Clean Signal", x |-> time, y |-> clean]>>
                \o (IF noise_enabled
                    THEN <<[label |-> "Noisy Signal", x |-> time, y |-> noisy_sig]>>
                    ELSE <<>>)
                \o (IF filter_enabled /\ noise_enabled
                    THEN <<[label |-> "Filtered Signal", x |-> time, y |-> filtered]>>
                    ELSE <<>>),
     axvline |-> 0]

\* create_frequency_domain_plot: the curves drawn, and the frequency marked
create_frequency_domain_plot(n, clean_fft, noisy_fft, filtered_fft, signal_type, frequency, noise_enabled, filter_enabled) ==
    [title |-> signal_type,
     curves |-> <<[label |-> "Clean Signal", x |-> n, y |-> clean_fft]>>
                \o (IF noise_enabled
                    THEN <<[label |-> "Noisy Signal", x |-> n, y |-> noisy_fft]>>
                    ELSE <<>>)
                \o (IF filter_enabled /\ noise_enabled
                    THEN <<[label |-> "Filtered Signal", x |-> n, y |-> filtered_fft]>>
                    ELSE <<>>),
     axvline |-> frequency]

NoFigure == [title |-> "", curves |-> <<>>, axvline |-> 0]

NoExport == [saved |-> FALSE, signals |-> <<>>, ffts |-> <<>>,
             ax1 |-> NoFigure, ax2 |-> NoFigure]

NoPage == [status |-> "no_page", n_samples |-> 0, t |-> 0, clean_signal |-> 0,
           noisy_signal |-> 0, filtered_signal |-> 0,
           signals |-> <<>>, ffts |-> <<>>,
           time_plot |-> NoFigure, freq_plot |-> NoFigure, stats_label |-> <<>>]
EmptyPage == [NoPage EXCEPT !.status = "empty"]

\* len(apply_filter(signal, window_size)) for len(signal) = n
apply_filter_len(n, window_size) == np_convolve_same_len(n, window_size)

\* stats_filtered of update_plots computed whenever the filter is enabled
stats_filtered_filter_only(c, filtered) ==
    IF c.filter_enabled THEN Some(calculate_statistics(filtered)) ELSE None

\* stats_noisy and stats_filtered of update_plots: a dict, or None
stats_noisy(c, noisy_sig) ==
    IF c.noise_enabled THEN Some(calculate_statistics(noisy_sig)) ELSE None
stats_filtered(c, filtered) ==
    IF c.filter_enabled /\ c.noise_enabled
    THEN Some(calculate_statistics(filtered)) ELSE None

\* snr_noisy and snr_filtered of update_plots: a float, or None
snr_noisy(c, clean, noisy_sig) ==
    IF c.noise_enabled THEN Some(calculate_snr(noisy_sig, clean)) ELSE None
snr_filtered(c, clean, filtered) ==
    IF c.noise_enabled
    THEN IF c.filter_enabled THEN Some(calculate_snr(filtered, clean)) ELSE None
    ELSE None

\* stats_text of update_plots: the blocks of the statistics, in order.  A
\* block is written when its dict is truthy; f"{snr:.2f}" of None raises
\* TypeError.  The improvement is written when both SNRs are truthy (an SNR
\* of exactly 0.0 dB is not told from the others).
stats_text(st_clean, st_noisy, st_filtered, s_noisy, s_filtered) ==
    <<[block |-> "Clean Signal", stats |-> Some(st_clean), snr |-> Some("none")]>>
    \o (IF st_noisy # None
        THEN <<[block |-> "Noisy Signal", stats |-> st_noisy, snr |-> s_noisy]>>
        ELSE <<>>)
    \o (IF st_filtered # None
        THEN <<[block |-> "Filtered Signal", stats |-> st_filtered, snr |-> s_filtered]>>
        ELSE <<>>)
    \o (IF s_noisy # None /\ s_filtered # None
        THEN <<[block |-> "SNR Improvement", stats |-> None,
                snr |-> Some(<<s_filtered[1], "-", s_noisy[1]>>)]>>
        ELSE <<>>)

\* update_plots() with the widgets at c: the lengths of t and of the three
\* signals (-1 is the length of what a raised statement did not make), the
\* signals and their spectra, and what is written to time_plot, freq_plot
\* and stats_label
update_plots(c) ==
    LET sample_rate == int(c.sample_rate)
        n == (sample_rate * c.duration) \div 10
        t == np_linspace(c.duration, n)
        clean == IF c.signal_type = "Sine"
                 THEN generate_sine_wave(t, c.frequency, c.amplitude)
                 ELSE IF c.signal_type = "Square"
                 THEN generate_square_wave(t, c.frequency, c.amplitude)
                 ELSE generate_sawtooth_wave(t, c.frequency, c.amplitude)
        noisy_sig == IF c.noise_enabled
                     THEN add_noise_array(clean, c.noise_level, Some(42))
                     ELSE clean
        filtered == IF c.filter_enabled /\ c.noise_enabled
                    THEN apply_filter(noisy_sig, c.filter_window)
                    ELSE clean
        clean_len == n
        noisy_len == IF c.noise_enabled THEN broadcast_len(clean_len, clean_len)
                     ELSE clean_len
        filtered_len == IF c.filter_enabled /\ c.noise_enabled
                        THEN apply_filter_len(noisy_len, c.filter_window)
                        ELSE clean_len
        clean_fft == positive_fft(clean, n, sample_rate)
        noisy_fft == positive_fft(noisy_sig, n, sample_rate)
        filtered_fft == positive_fft(filtered, n, sample_rate)
        text == stats_text(calculate_statistics(clean),
                           stats_noisy(c, noisy_sig), stats_filtered(c, filtered),
                           snr_noisy(c, clean, noisy_sig),
                           snr_filtered(c, clean, filtered))
    IN  [status |-> IF noisy_len < 0 \/ filtered_len < 0 THEN "ValueError"
                    ELSE IF \E i \in DOMAIN text : text[i].snr = None THEN "TypeError"
                    ELSE "drawn",
         n_samples |-> n, t |-> n, clean_signal |-> clean_len,
         noisy_signal |-> noisy_len, filtered_signal |-> filtered_len,
         signals |-> <<clean, noisy_sig, filtered>>,
         ffts |-> <<clean_fft, noisy_fft, filtered_fft>>,
         time_plot |-> create_time_domain_plot(t, clean, noisy_sig, filtered,
                           c.signal_type, c.noise_enabled, c.filter_enabled),
         freq_plot |-> create_frequency_domain_plot(n, clean_fft, noisy_fft,
                           filtered_fft, c.signal_type, c.frequency,
                           c.noise_enabled, c.filter_enabled),
         stats_label |-> text]

\* the generator after update_plots(): add_noise(..., seed=42) has seeded it
\* and drawn one variate per sample
update_plots_rng(c, g) ==
    IF c.noise_enabled
    THEN np_random_advance(np_random_seed(42), (int(c.sample_rate) * c.duration) \div 10)
    ELSE g

\* export_plot() that filters whenever the filter switch is on
export_plot_filter_alone(c) ==
    LET sample_rate == int(c.sample_rate)
        n == (sample_rate * c.duration) \div 10
        t == np_linspace(c.duration, n)
        clean == IF c.signal_type = "Sine"
                 THEN generate_sine_wave(t, c.frequency, c.amplitude)
                 ELSE IF c.signal_type = "Square"
                 THEN generate_square_wave(t, c.frequency, c.amplitude)
                 ELSE generate_sawtooth_wave(t, c.frequency, c.amplitude)
        noisy_sig == IF c.noise_enabled
                     THEN add_noise_array(clean, c.noise_level, Some(42))
                     ELSE clean
        filtered == IF c.filter_enabled
                    THEN apply_filter(noisy_sig, c.filter_window)
                    ELSE clean
        clean_fft == positive_fft(clean, n, sample_rate)
        noisy_fft == positive_fft(noisy_sig, n, sample_rate)
        filtered_fft == positive_fft(filtered, n, sample_rate)
    IN  [saved |-> TRUE,
         signals |-> <<clean, noisy_sig, filtered>>,
         ffts |-> <<clean_fft, noisy_fft, filtered_fft>>,
         ax1 |-> [title |-> c.signal_type,
                  curves |-> <<[label |-> "Clean Signal", x |-> t, y |-> clean]>>
                     \o (IF c.noise_enabled
                         THEN <<[label |-> "Noisy Signal", x |-> t, y |-> noisy_sig]>>
                         ELSE <<>>)
                     \o (IF c.filter_enabled /\ c.noise_enabled
                         THEN <<[label |-> "Filtered Signal", x |-> t, y |-> filtered]>>
                         ELSE <<>>),
                  axvline |-> 0],
         ax2 |-> [title |-> c.signal_type,
                  curves |-> <<[label |-> "Clean Signal", x |-> n, y |-> clean_fft]>>
                     \o (IF c.noise_enabled
                         THEN <<[label |-> "Noisy Signal", x |-> n, y |-> noisy_fft]>>
                         ELSE <<>>)
                     \o (IF c.filter_enabled /\ c.noise_enabled
                         THEN <<[label |-> "Filtered Signal", x |-> n, y |-> filtered_fft]>>
                         ELSE <<>>),
                  axvline |-> c.frequency]]

\* export_plot() with the widgets at c: the signals and spectra it derives
\* and the curves of the two axes of the figure it saves
export_plot(c) ==
    LET sample_rate == int(c.sample_rate)
        n == (sample_rate * c.duration) \div 10
        t == np_linspace(c.duration, n)
        clean == IF c.signal_type = "Sine"
                 THEN generate_sine_wave(t, c.frequency, c.amplitude)
                 ELSE IF c.signal_type = "Square"
                 THEN generate_square_wave(t, c.frequency, c.amplitude)
                 ELSE generate_sawtooth_wave(t, c.frequency, c.amplitude)
        noisy_sig == IF c.noise_enabled
                     THEN add_noise_array(clean, c.noise_level, Some(42))
                     ELSE clean
        filtered == IF c.filter_enabled /\ c.noise_enabled
                    THEN apply_filter(noisy_sig, c.filter_window)
                    ELSE clean
        clean_fft == positive_fft(clean, n, sample_rate)
        noisy_fft == positive_fft(noisy_sig, n, sample_rate)
        filtered_fft == positive_fft(filtered, n, sample_rate)
    IN  [saved |-> TRUE,
         signals |-> <<clean, noisy_sig, filtered>>,
         ffts |-> <<clean_fft, noisy_fft, filtered_fft>>,
         ax1 |-> [title |-> c.signal_type,
                  curves |-> <<[label |-> "Clean Signal", x |-> t, y |-> clean]>>
                     \o (IF c.noise_enabled
                         THEN <<[label |-> "Noisy Signal", x |-> t, y |-> noisy_sig]>>
                         ELSE <<>>)
                     \o (IF c.filter_enabled /\ c.noise_enabled
                         THEN <<[label |-> "Filtered Signal", x |-> t, y |-> filtered]>>
                         ELSE <<>>),
                  axvline |-> 0],
         ax2 |-> [title |-> c.signal_type,
                  curves |-> <<[label |-> "Clean Signal", x |-> n, y |-> clean_fft]>>
                     \o (IF c.noise_enabled
                         THEN <<[label |-> "Noisy Signal", x |-> n, y |-> noisy_fft]>>
                         ELSE <<>>)
                     \o (IF c.filter_enabled /\ c.noise_enabled
                         THEN <<[label |-> "Filtered Signal", x |-> n, y |-> filtered_fft]>>
                         ELSE <<>>),
                  axvline |-> c.frequency]]

\* reset_to_defaults() that leaves the noise switch as it is
reset_to_defaults_but_switch(c) ==
    [c EXCEPT !.signal_type = DEFAULT_PARAMS.signal_type,
              !.frequency = DEFAULT_PARAMS.frequency,
              !.amplitude = DEFAULT_PARAMS.amplitude,
              !.duration = DEFAULT_PARAMS.duration,
              !.sample_rate = str(DEFAULT_PARAMS.sample_rate),
              !.noise_level = DEFAULT_PARAMS.noise_level,
              !.filter_enabled = DEFAULT_PARAMS.filter_enabled,
              !.filter_window = DEFAULT_PARAMS.filter_window]

\* reset_to_defaults(): the nine assignments to the widgets whose values
\* are c
reset_to_defaults(c) ==
    [c EXCEPT !.signal_type = DEFAULT_PARAMS.signal_type,
              !.frequency = DEFAULT_PARAMS.frequency,
              !.amplitude = DEFAULT_PARAMS.amplitude,
              !.duration = DEFAULT_PARAMS.duration,
              !.sample_rate = str(DEFAULT_PARAMS.sample_rate),
              !.noise_enabled = DEFAULT_PARAMS.noise_enabled,
              !.noise_level = DEFAULT_PARAMS.noise_level,
              !.filter_enabled = DEFAULT_PARAMS.filter_enabled,
              !.filter_window = DEFAULT_PARAMS.filter_window]

\* The pages open at a time: main_page runs once for each.
Pages == {"tab1", "tab2"}
Loaded(p) == plots[p].status # "no_page"

\* update_plots() run as a handler: it reads the widgets and writes the
\* elements that the module globals name at that moment
Refreshed(cs) == [plots EXCEPT ![globals] = update_plots(cs[globals])]

\* main_page(): the page's widgets are made with the default values, its
\* three elements empty, the module globals are bound to them, and the
\* timer is started
MainPage ==
    /\ \E p \in Pages :
          /\ ~Loaded(p)
          /\ controls' = [controls EXCEPT ![p] = InitialValues]
          /\ plots' = [plots EXCEPT ![p] = EmptyPage]
          /\ globals' = p
          /\ timers' = timers \cup {p}
    /\ UNCHANGED <<events, exported, ch_pc, series, serverVars>>
    /\ UNCHANGED <<extractVars, fsVars, loaderVars, scalerVars, synthVars>>

\* the timer of a page fires, once, and calls update_plots()
TimerFires ==
    /\ \E p \in timers : timers' = timers \ {p}
    /\ plots' = Refreshed(controls)
    /\ np_random' = update_plots_rng(controls[globals], np_random)
    /\ UNCHANGED <<controls, globals, events, exported, ch_pc, series, serverVars>>
    /\ UNCHANGED <<sequence, features, returned, fsVars, loaderVars, scalerVars, synthVars>>

\* the 'Update Plot' button of a page
UpdatePlots ==
    /\ \E p \in Pages : Loaded(p)
    /\ plots' = Refreshed(controls)
    /\ np_random' = update_plots_rng(controls[globals], np_random)
    /\ UNCHANGED <<controls, globals, timers, events, exported, ch_pc, series, serverVars>>
    /\ UNCHANGED <<sequence, features, returned, fsVars, loaderVars, scalerVars, synthVars>>

\* a widget of page p is set to another value it allows; the widget takes
\* the value and its handler calls update_plots()
ControlChanged(p, w, v) ==
    /\ Loaded(p)
    /\ v # controls[p][w]
    /\ controls' = [controls EXCEPT ![p][w] = v]
    /\ plots' = Refreshed(controls')
    /\ np_random' = update_plots_rng(controls'[globals], np_random)
    /\ UNCHANGED <<globals, timers, exported, ch_pc, series, serverVars>>
    /\ UNCHANGED <<sequence, features, returned, fsVars, loaderVars, scalerVars, synthVars>>

\* the 'Reset to Defaults' button of a page: the widgets are assigned, which
\* calls no handler, and update_plots() is called once at the end
ResetToDefaults ==
    /\ \E p \in Pages : Loaded(p)
    /\ controls' = [controls EXCEPT ![globals] = reset_to_defaults(@)]
    /\ plots' = Refreshed(controls')
    /\ np_random' = update_plots_rng(controls'[globals], np_random)
    /\ UNCHANGED <<globals, timers, events, exported, ch_pc, series, serverVars>>
    /\ UNCHANGED <<sequence, features, returned, fsVars, loaderVars, scalerVars, synthVars>>

\* the 'Export Plot' button of a page; its add_noise(..., seed=42) leaves
\* the generator as that of update_plots does
ExportPlot ==
    /\ \E p \in Pages : Loaded(p)
    /\ exported' = export_plot(controls[globals])
    /\ np_random' = update_plots_rng(controls[globals], np_random)
    /\ UNCHANGED <<controls, plots, globals, timers, events, ch_pc, series, serverVars>>
    /\ UNCHANGED <<sequence, features, returned, fsVars, loaderVars, scalerVars, synthVars>>

SetControl ==
    /\ \E p \in Pages : \E w \in DOMAIN WidgetValues : \E v \in WidgetValues[w] :
          ControlChanged(p, w, v)
    /\ UNCHANGED events

\* the same, of the first MaxEvents changes
SetControlCounted ==
    /\ events < MaxEvents
    /\ \E p \in Pages : \E w \in DOMAIN WidgetValues : \E v \in WidgetValues[w] :
          ControlChanged(p, w, v)
    /\ events' = events + 1

-----------------------------------------------------------------------------
(* The __main__ block of signal_visualizer.py: the search for a free port  *)
(* and the start of the server.  Between two binds other processes may     *)
(* take or release ports.                                                  *)

start_port == 3030
max_attempts == 10

\* port = start_port + i + 1: the ports after the first
attempt_port_from_one(i) == start_port + i + 1

\* port = start_port + i, for i in range(max_attempts)
attempt_port(i) == start_port + i

PortRange == {attempt_port(i) : i \in 0..(max_attempts - 1)}

\* find_free_port: one turn of the loop.  s.bind succeeds and the port is
\* returned, or raises OSError and the loop continues.
BindAttempt ==
    /\ main_pc = "find_free_port"
    /\ Len(attempts) < max_attempts
    /\ LET tried == attempt_port(Len(attempts))
       IN  /\ attempts' = Append(attempts, [port |-> tried, bound |-> tried \in free_ports])
           /\ IF tried \in free_ports
              THEN port' = Some(tried) /\ main_pc' = "returned"
              ELSE UNCHANGED <<port, main_pc>>
    /\ UNCHANGED <<free_ports, serving>>
    /\ UNCHANGED <<ch_pc, series, pageVars>>
    /\ UNCHANGED <<extractVars, fsVars, loaderVars, scalerVars, synthVars>>

\* find_free_port: the loop is over, return None
ReturnNone ==
    /\ main_pc = "find_free_port"
    /\ Len(attempts) = max_attempts
    /\ port' = None /\ main_pc' = "returned"
    /\ UNCHANGED <<free_ports, attempts, serving>>
    /\ UNCHANGED <<ch_pc, series, pageVars>>
    /\ UNCHANGED <<extractVars, fsVars, loaderVars, scalerVars, synthVars>>

\* if port is None: port = 3030; ui.run(port=port, ...)
StartServer ==
    /\ main_pc = "returned"
    /\ port' = IF port = None THEN Some(3030) ELSE port
    /\ serving' = port'
    /\ main_pc' = "ui_run"
    /\ UNCHANGED <<free_ports, attempts>>
    /\ UNCHANGED <<ch_pc, series, pageVars>>
    /\ UNCHANGED <<extractVars, fsVars, loaderVars, scalerVars, synthVars>>

\* another process takes or releases a port while the search runs
PortChanges ==
    /\ main_pc = "find_free_port"
    /\ \E q \in PortRange :
          free_ports' = IF q \in free_ports THEN free_ports \ {q} ELSE free_ports \cup {q}
    /\ UNCHANGED <<main_pc, attempts, port, serving>>
    /\ UNCHANGED <<ch_pc, series, pageVars>>
    /\ UNCHANGED <<extractVars, fsVars, loaderVars, scalerVars, synthVars>>

-----------------------------------------------------------------------------
(* Initial values *)

NoScript ==
    /\ script = "none" /\ ip = 1
    /\ X = <<>>
    /\ train_idx = <<>> /\ test_idx = <<>> /\ val_idx = <<>>
    /\ scaler = Unfitted /\ scaler_log = <<>> /\ pickled = Unfitted

NoSynthesis ==
    /\ synth = [fn |-> "none", signal |-> <<>>, noise_level |-> 0, seed |-> None]
    /\ noisy = [outcome |-> "idle", value |-> <<>>]
    /\ synthesized = {}

NoPages ==
    /\ controls = [p \in Pages |-> InitialValues]
    /\ plots = [p \in Pages |-> NoPage]
    /\ globals = "none" /\ timers = {}
    /\ events = 0
    /\ exported = NoExport

NoServer ==
    /\ main_pc = "not_run" /\ free_ports = {}
    /\ attempts = <<>> /\ port = None /\ serving = None

NoSeries ==
    /\ ch_pc = NoChapter /\ series = <<>>
    /\ NoPages
    /\ NoServer

NoCall ==
    /\ features = Idle
    /\ returned = {}

LoaderNotStarted ==
    /\ pc = "check_exists"
    /\ condition_dirs = <<>> /\ dirs_left = <<>> /\ csv_files = <<>>
    /\ label = -1
    /\ X_list = <<>> /\ y_list = <<>>
    /\ reads = <<>> /\ stdout = <<>>
    /\ loaded = Running

NoFileSystem == fs_exists = FALSE /\ fs_root = <<>>

-----------------------------------------------------------------------------
(* SpecExtract: the extractor applied to any window of the bounded set,    *)
(* the generator as the script leaves it (seeded with 42).                 *)

InitExtract ==
    /\ \/ GeneralWindow(sequence)
       \/ ConstantWindow(sequence)
       \/ sequence = ScenarioWindow
    /\ NoCall
    /\ np_random = np_random_seed(42)
    /\ NoFileSystem
    /\ LoaderNotStarted
    /\ NoScript /\ NoSynthesis /\ NoSeries

NextExtract == CallExtract

SpecExtract == InitExtract /\ [][NextExtract]_vars

-----------------------------------------------------------------------------
(* SpecPurity: repeated calls on one window, the caller seeding and        *)
(* drawing from the global generator between them.                         *)

InitPurity ==
    /\ \/ EmptyWindow(sequence)
       \/ ConstantWindow(sequence)
       \/ sequence = ScenarioWindow
    /\ NoCall
    /\ np_random \in RngStates
    /\ NoFileSystem
    /\ LoaderNotStarted
    /\ NoScript /\ NoSynthesis /\ NoSeries

NextPurity == CallExtract \/ SeedRandom \/ DrawRandom

SpecPurity == InitPurity /\ [][NextPurity]_vars

-----------------------------------------------------------------------------
(* Spec: load_csv_data_with_features("train") run on any tree of the       *)
(* bounded set, or on a directory that does not exist.                     *)

Init ==
    /\ sequence = NoTable
    /\ NoCall
    /\ np_random = np_random_seed(42)
    /\ \/ NoFileSystem
       \/ fs_exists = TRUE /\ FileSystem(fs_root)
    /\ LoaderNotStarted
    /\ NoScript /\ NoSynthesis /\ NoSeries

Next ==
    \/ LoadCheckExists
    \/ LoadListDirs
    \/ LoadSkipUnknown
    \/ LoadGlob
    \/ LoadReadFile
    \/ LoadDirDone
    \/ LoadReturn

Spec == Init /\ [][Next]_vars

-----------------------------------------------------------------------------
(* SpecFaulty: the loader run on trees whose sample files may be sound,    *)
(* hold a header and no row, lack an axis column, or not parse at all.     *)

SoundFile == CsvFile(<<"ax", "ay", "az">>, NDArray(1, 3, << <<2, 0, -1>> >>))
ReorderedFile == CsvFile(<<"t", "az", "ay", "ax">>, NDArray(1, 4, << <<0, -1, 0, 2>> >>))
HeaderOnlyFile == CsvFile(<<"ax", "ay", "az">>, NDArray(0, 3, <<>>))
NoAxFile == CsvFile(<<"ay", "az">>, NDArray(1, 2, << <<0, -1>> >>))

FileContents == {SoundFile, ReorderedFile, HeaderOnlyFile, NoAxFile, Garbage}

\* fs is a tree holding normal/ with sample files of any content, and
\* possibly bearing/ and unknown_condition/ with one file each
FaultyFileSystem(fs) ==
    \E others \in SubsetsUpTo({"bearing", "unknown_condition"}, MaxEntries - 1) :
        \E names \in SubsetsUpTo({"s1.csv", "s2.csv"}, MaxFiles) :
            \E held \in [names -> FileContents] :
                fs = [n \in {"normal"} \cup others |->
                        IF n = "normal" THEN DirEntry(held)
                        ELSE IF n = "bearing" THEN DirEntry([f \in {"s1.csv"} |-> Content(n, f)])
                        ELSE DirEntry([f \in {"s1.csv"} |-> Garbage])]

InitFaulty ==
    /\ sequence = NoTable
    /\ NoCall
    /\ np_random = np_random_seed(42)
    /\ fs_exists = TRUE /\ FaultyFileSystem(fs_root)
    /\ LoaderNotStarted
    /\ NoScript /\ NoSynthesis /\ NoSeries

SpecFaulty == InitFaulty /\ [][Next]_vars

-----------------------------------------------------------------------------
(* SpecScaler: each of the scripts run on any feature matrix of the        *)
(* bounded set.  train_features.py has no test split: its X is the         *)
(* training set the loader returned.                                       *)

InitScaler ==
    /\ script \in Scripts /\ ip = 1
    /\ Dataset(X)
    /\ train_idx = (IF script = "train_features" THEN Identity(Len(X)) ELSE <<>>)
    /\ test_idx = <<>> /\ val_idx = <<>>
    /\ scaler = Unfitted /\ scaler_log = <<>> /\ pickled = Unfitted
    /\ sequence = NoTable
    /\ NoCall
    /\ np_random = np_random_seed(42)
    /\ NoFileSystem
    /\ LoaderNotStarted
    /\ NoSynthesis /\ NoSeries

NextScaler ==
    \/ ScalerFitTransform
    \/ TrainTestSplit
    \/ KerasFit
    \/ ScalerTransform
    \/ ScalerFitTransform2D
    \/ JoblibDump

SpecScaler == InitScaler /\ [][NextScaler]_vars

-----------------------------------------------------------------------------
(* SpecSynth: repeated calls of one synthesis function with one set of     *)
(* arguments, the caller seeding and drawing from the global generator     *)
(* between them.                                                           *)

InitSynth ==
    /\ \E n \in 0..MaxDraws, level \in NoiseLevels :
          \/ \E s \in Seeds \cup {0} :
                synth = [fn |-> "add_noise", signal |-> SquareWave(n), noise_level |-> level,
                         seed |-> IF s = 0 THEN None ELSE Some(s)]
          \/ \E s \in Seeds :
                synth = [fn |-> "create_noise", signal |-> SquareWave(n), noise_level |-> level,
                         seed |-> Some(s)]
    /\ noisy = [outcome |-> "idle", value |-> <<>>]
    /\ synthesized = {}
    /\ np_random \in RngStates
    /\ sequence = NoTable
    /\ NoCall
    /\ NoFileSystem
    /\ LoaderNotStarted
    /\ NoScript /\ NoSeries

NextSynth == CallAddNoise \/ CallCreateNoise \/ SeedRandom \/ DrawRandom

SpecSynth == InitSynth /\ [][NextSynth]_vars

-----------------------------------------------------------------------------
(* SpecSeries: the data generation of a chapter script, or the page of     *)
(* signal_visualizer.py with its widgets at their defaults and the user    *)
(* setting them.                                                           *)

InitSeries ==
    /\ \/ /\ \E c \in DOMAIN ChapterStatements :
                ch_pc = [script |-> c, at |-> 1, frame |-> "none"]
          /\ \E s \in Seeds : np_random = np_random_seed(s)
          /\ plots = [p \in Pages |-> NoPage]
          /\ globals = "none" /\ timers = {}
       \/ /\ ch_pc = NoChapter
          /\ np_random = np_random_seed(42)
          /\ plots = [p \in Pages |-> IF p = "tab1" THEN EmptyPage ELSE NoPage]
          /\ globals = "tab1" /\ timers = {"tab1"}
    /\ series = <<>>
    /\ controls = [p \in Pages |-> InitialValues]
    /\ events = 0
    /\ exported = NoExport
    /\ NoServer
    /\ sequence = NoTable
    /\ NoCall
    /\ NoFileSystem
    /\ LoaderNotStarted
    /\ NoScript /\ NoSynthesis

NextSeries ==
    \/ ChapterSeed
    \/ ChapterArange
    \/ ChapterChannel
    \/ ChapterFrame
    \/ TimerFires
    \/ UpdatePlots
    \/ SetControl
    \/ ResetToDefaults

SpecSeries == InitSeries /\ [][NextSeries]_vars

-----------------------------------------------------------------------------
(* SpecExport: one page, its widgets at any combination of their values    *)
(* and its display drawn for them, on which the user presses the buttons   *)
(* 'Export Plot' and 'Reset to Defaults'.                                  *)

InitExport ==
    /\ ch_pc = NoChapter /\ series = <<>>
    /\ \E c \in [signal_type : WidgetValues.signal_type,
                  frequency : WidgetValues.frequency,
                  amplitude : WidgetValues.amplitude,
                  duration : WidgetValues.duration,
                  sample_rate : WidgetValues.sample_rate,
                  noise_enabled : WidgetValues.noise_enabled,
                  noise_level : WidgetValues.noise_level,
                  filter_enabled : WidgetValues.filter_enabled,
                  filter_window : WidgetValues.filter_window] :
          /\ controls = [p \in Pages |-> IF p = "tab1" THEN c ELSE InitialValues]
          /\ plots = [p \in Pages |-> IF p = "tab1" THEN update_plots(c) ELSE NoPage]
          /\ np_random = update_plots_rng(c, update_plots_rng(InitialValues, np_random_seed(42)))
    /\ globals = "tab1" /\ timers = {}
    /\ events = 0
    /\ exported = NoExport
    /\ NoServer
    /\ sequence = NoTable
    /\ NoCall
    /\ NoFileSystem
    /\ LoaderNotStarted
    /\ NoScript /\ NoSynthesis

NextExport ==
    \/ ExportPlot
    \/ ResetToDefaults

SpecExport == InitExport /\ [][NextExport]_vars

-----------------------------------------------------------------------------
(* SpecServer: signal_visualizer.py run as a script, with any of the ten   *)
(* ports free or taken.  The script runs on by itself: each of its steps   *)
(* is taken if it stays possible.                                          *)

InitServer ==
    /\ main_pc = "find_free_port"
    /\ free_ports \in SUBSET PortRange
    /\ attempts = <<>> /\ port = None /\ serving = None
    /\ ch_pc = NoChapter /\ series = <<>>
    /\ NoPages
    /\ np_random = np_random_seed(42)
    /\ sequence = NoTable
    /\ NoCall
    /\ NoFileSystem
    /\ LoaderNotStarted
    /\ NoScript /\ NoSynthesis

NextServer ==
    \/ BindAttempt
    \/ ReturnNone
    \/ StartServer
    \/ PortChanges

SpecServer ==
    /\ InitServer /\ [][NextServer]_vars
    /\ WF_vars(BindAttempt) /\ WF_vars(ReturnNone) /\ WF_vars(StartServer)

-----------------------------------------------------------------------------
(* SpecGui: the server of signal_visualizer.py, to which up to two pages   *)
(* connect, in any order and at any time, and whose users set the widgets  *)
(* of their page.                                                          *)

InitGui ==
    /\ ch_pc = NoChapter /\ series = <<>>
    /\ NoPages
    /\ np_random = np_random_seed(42)
    /\ NoServer
    /\ sequence = NoTable
    /\ NoCall
    /\ NoFileSystem
    /\ LoaderNotStarted
    /\ NoScript /\ NoSynthesis

NextGui ==
    \/ MainPage
    \/ TimerFires
    \/ SetControlCounted

SpecGui == InitGui /\ [][NextGui]_vars

-----------------------------------------------------------------------------
(* Reference notions the claims are stated with, defined on the window     *)
(* itself and not through the numpy operators above.                       *)

TimeSteps == sequence.shape[1]
NumAxes == sequence.shape[2]
Called == features # Idle
Returned == features.outcome = "return"

\* the samples of axis a (1-based), as a function of the time index
Column(a) == [t \in 1..TimeSteps |-> sequence.data[t][a]]

RECURSIVE SigmaUpTo(_, _)
SigmaUpTo(f, k) == IF k = 0 THEN 0 ELSE f[k] + SigmaUpTo(f, k - 1)

\* sum of the samples, and of their squares, of axis a
Sigma(a) == SigmaUpTo(Column(a), TimeSteps)
SigmaSq(a) == SigmaUpTo([t \in 1..TimeSteps |-> Column(a)[t] * Column(a)[t]], TimeSteps)

\* the feature at index 6*a + k (a, k 0-based as in the claim)
Field(a, k) == features.value[6 * a + k + 1]

NonNegative(v) == (v.kind = "rat" /\ v.n >= 0) \/ (v.kind = "sqrt" /\ v.n > 0)

\* v^2 = n/d, for a rational or a root v
SquareIs(v, n, d) ==
    \/ v.kind = "rat" /\ v.n * v.n * d = n * v.d * v.d
    \/ v.kind = "sqrt" /\ v.n * d = n * v.d

IsMean(v, a) == v.kind = "rat" /\ v.n * TimeSteps = v.d * Sigma(a)

\* population standard deviation: v >= 0 and v^2 * T = sum (x - mean)^2,
\* that is v^2 * T^2 = T * sum x^2 - (sum x)^2
IsPopulationStd(v, a) ==
    /\ NonNegative(v)
    /\ SquareIs(v, TimeSteps * SigmaSq(a) - Sigma(a) * Sigma(a), TimeSteps * TimeSteps)

IsMin(v, a) ==
    /\ v.kind = "rat" /\ v.d = 1
    /\ \E t \in 1..TimeSteps : Column(a)[t] = v.n
    /\ \A t \in 1..TimeSteps : v.n <= Column(a)[t]

IsMax(v, a) ==
    /\ v.kind = "rat" /\ v.d = 1
    /\ \E t \in 1..TimeSteps : Column(a)[t] = v.n
    /\ \A t \in 1..TimeSteps : v.n >= Column(a)[t]

IsRms(v, a) == NonNegative(v) /\ SquareIs(v, SigmaSq(a), TimeSteps)

\* the largest difference of two samples of the axis
IsPeakToPeak(v, a) ==
    /\ v.kind = "rat" /\ v.d = 1
    /\ \E t, u \in 1..TimeSteps : Column(a)[t] - Column(a)[u] = v.n
    /\ \A t, u \in 1..TimeSteps : Column(a)[t] - Column(a)[u] <= v.n

-----------------------------------------------------------------------------
(* Claims about extract_features_from_sequence                             *)

\* C1: for a window of T >= 1 time steps and A >= 1 axes the call returns a
\* vector of length exactly 6*A whose element 6*a+k is, for k = 0..5, the
\* mean, standard deviation, minimum, maximum, RMS and peak-to-peak of axis a.
C1_FeatureLayout ==
    (Called /\ TimeSteps >= 1 /\ NumAxes >= 1) =>
        /\ Returned
        /\ Len(features.value) = 6 * NumAxes
        /\ \A a \in 0..(NumAxes - 1) :
            /\ IsMean(Field(a, 0), a + 1)
            /\ IsPopulationStd(Field(a, 1), a + 1)
            /\ IsMin(Field(a, 2), a + 1)
            /\ IsMax(Field(a, 3), a + 1)
            /\ IsRms(Field(a, 4), a + 1)
            /\ IsPeakToPeak(Field(a, 5), a + 1)

\* C1 witness: a returned two-axis, two-step window whose axes differ in
\* every one of the six statistics.
C1_Witness ==
    /\ Returned /\ TimeSteps = 2 /\ NumAxes = 2
    /\ \A k \in 0..5 : Field(0, k) # Field(1, k)

\* C2: in every returned vector and for every axis, field 6a+5 equals
\* exactly field 6a+3 minus field 6a+2.
C2_PeakToPeakIsMaxMinusMin ==
    Returned =>
        \A a \in 0..(NumAxes - 1) :
            /\ Field(a, 2).kind = "rat" /\ Field(a, 3).kind = "rat"
            /\ Field(a, 5) = RSub(Field(a, 3), Field(a, 2))

\* C2 witness: a returned axis with max > min, so a non-zero peak-to-peak.
C2_Witness ==
    /\ Returned /\ NumAxes >= 1
    /\ \E a \in 0..(NumAxes - 1) : Field(a, 5).kind = "rat" /\ Field(a, 5).n > 0

C4_PopulationStd ==
    /\ (Called /\ TimeSteps >= 1) =>
          \A a \in 0..(NumAxes - 1) : IsPopulationStd(Field(a, 1), a + 1)
    /\ (Called /\ sequence = ScenarioWindow) =>
          /\ Field(0, 0) = Rat(5, 2)
          /\ Field(0, 1) = [kind |-> "sqrt", n |-> 5, d |-> 4]
          /\ Field(0, 2) = Rat(1, 1)
          /\ Field(0, 3) = Rat(4, 1)
          /\ Field(0, 4) = [kind |-> "sqrt", n |-> 15, d |-> 2]
          /\ Field(0, 5) = Rat(3, 1)

\* C4 witness: the scenario column 1,2,3,4 has been extracted, and its
\* std is not the sample (T-1) standard deviation sqrt(5/3).
C4_Witness ==
    /\ Returned /\ sequence = ScenarioWindow
    /\ Field(0, 1) # [kind |-> "sqrt", n |-> 5, d |-> 3]

\* all samples of the one-axis window equal c
IsConstant(c) ==
    /\ NumAxes = 1 /\ TimeSteps >= 1
    /\ \A t \in 1..TimeSteps : sequence.data[t][1] = c

C6_EmptyWindowFails ==
    /\ (Called /\ TimeSteps = 0) =>
          features.outcome = "ValueError" /\ features.value = <<>>
    /\ Returned => \A i \in 1..Len(features.value) : features.value[i].kind # "nan"

\* C6 witness: the call on a window of shape (0, A) has raised.
C6_Witness == Called /\ TimeSteps = 0 /\ NumAxes >= 1 /\ features.outcome = "ValueError"

-----------------------------------------------------------------------------
(* Claims about load_csv_data_with_features                                *)

Finished == pc \in {"returned", "raised"}

\* the recognized class directories of the tree, and a directory's samples
ClassDirs == {d \in DOMAIN fs_root : fs_root[d].is_dir /\ d \in DOMAIN condition_mapping}
SampleFiles(d) == {f \in DOMAIN fs_root[d].files : MatchesStarCsv(f)}
AllSamples == UNION { {<<d, f>> : f \in SampleFiles(d)} : d \in ClassDirs }

\* <<dir, file>> pairs in lexicographic order of directory, then of file
PathLess(p, q) == StrLess(p[1], q[1]) \/ (p[1] = q[1] /\ StrLess(p[2], q[2]))

\* C8: the (feature row, label) sequence returned depends only on the set of
\* class directories and files, not on the order the file system enumerates
\* them: the rows are those of all sample files of the recognized
\* directories, directories in lexicographic order and files in
\* lexicographic order within each.
C8_OrderIndependent ==
    pc = "returned" =>
        /\ Len(loaded.X) = Len(reads) /\ Len(loaded.y) = Len(reads)
        /\ {reads[i] : i \in 1..Len(reads)} = AllSamples
        /\ \A i, j \in 1..Len(reads) : i < j => PathLess(reads[i], reads[j])
        /\ \A i \in 1..Len(reads) :
            /\ loaded.X[i] =
                 extract_features_from_sequence(
                     read_csv_axes(fs_root, reads[i][1], reads[i][2]).value).value
            /\ loaded.y[i] = condition_mapping[reads[i][1]]

\* C8 witness: the loader returned differing rows of two directories that
\* iterdir() had enumerated in descending order.
C8_Witness ==
    /\ pc = "returned" /\ Len(loaded.X) >= 2
    /\ Len(condition_dirs) >= 2 /\ StrLess(condition_dirs[2], condition_dirs[1])
    /\ \E i, j \in 1..Len(reads) : reads[i][1] # reads[j][1] /\ loaded.X[i] # loaded.X[j]

\* C9: when the root path does not exist the loader fails with the
\* missing-directory error before reading any file and returns no samples.
C9_MissingDirectory ==
    (~fs_exists /\ pc # "check_exists") =>
        /\ pc = "raised"
        /\ loaded = Raised("ValueError: directory does not exist")
        /\ reads = <<>>
        /\ X_list = <<>> /\ y_list = <<>>

\* C9 witness: the loader has raised on a path that does not exist.
C9_Witness == ~fs_exists /\ pc = "raised"

\* C10: when a directory with a recognized class name holds no matching
\* sample file, the loader raises instead of returning a data set in which
\* that class is absent.
C10_NoSamplesFound ==
    (Finished /\ \E d \in ClassDirs : SampleFiles(d) = {}) => pc = "raised"

\* the subdirectories whose name is no recognized class name
UnknownDirs == {d \in DOMAIN fs_root : fs_root[d].is_dir /\ d \notin DOMAIN condition_mapping}

\* the tree fs with its entry d removed
Without(fs, d) == [n \in DOMAIN fs \ {d} |-> fs[n]]

\* the elements of a set of names as an ascending list
Ascending(S) == sorted(CHOOSE e \in Enumerations(S) : TRUE)

\* the rows and labels of the sample files of directory d of the tree fs
RowsOf(fs, d) ==
    LET files == Ascending({f \in DOMAIN fs[d].files : MatchesStarCsv(f)})
    IN  [i \in 1..Len(files) |->
            extract_features_from_sequence(read_csv_axes(fs, d, files[i]).value).value]
LabelsOf(fs, d) ==
    [i \in 1..Cardinality({f \in DOMAIN fs[d].files : MatchesStarCsv(f)}) |->
        condition_mapping[d]]

RECURSIVE Concat(_, _)
Concat(f, dirs) == IF dirs = <<>> THEN <<>> ELSE f[Head(dirs)] \o Concat(f, Tail(dirs))

\* what a call of the loader on the existing tree fs ends with, every
\* sample file of fs being one the extractor returns a vector for
LoadOutcome(fs) ==
    LET dirs == {n \in DOMAIN fs : fs[n].is_dir}
        class == Ascending(dirs \cap DOMAIN condition_mapping)
    IN  IF dirs = {}
        THEN Raised("ValueError: no condition subdirectories")
        ELSE [outcome |-> "return",
              X |-> Concat([d \in dirs |-> RowsOf(fs, d)], class),
              y |-> Concat([d \in dirs |-> LabelsOf(fs, d)], class),
              condition_names |-> sorted(condition_mapping_keys)]

\* the step model ends with what LoadOutcome computes from the tree
LoadOutcomeAgrees == (fs_exists /\ Finished) => loaded = LoadOutcome(fs_root)

ClassLabel == [name \in {"normal", "bearing", "misalignment", "imbalance"} |->
                 CASE name = "normal" -> 0
                   [] name = "bearing" -> 1
                   [] name = "misalignment" -> 2
                   [] name = "imbalance" -> 3]

\* C12: every sample the loader has appended, and every sample it returns,
\* carries the label that the fixed mapping normal -> 0, bearing -> 1,
\* misalignment -> 2, imbalance -> 3 gives to the name of the directory
\* holding its file, whatever the file holds, whatever the order of
\* enumeration and whatever other directories the tree has.
C12_LabelByDirectoryName ==
    /\ Len(y_list) = Len(reads)
    /\ \A i \in 1..Len(y_list) :
          reads[i][1] \in DOMAIN ClassLabel /\ y_list[i] = ClassLabel[reads[i][1]]
    /\ pc = "returned" => loaded.y = y_list

\* C12 witness: the loader has returned a sample of imbalance/ labelled 3
\* after one of another class directory with a different file content,
\* iterdir() having enumerated the directories in descending order.
C12_Witness ==
    /\ pc = "returned"
    /\ Len(condition_dirs) >= 2 /\ StrLess(condition_dirs[2], condition_dirs[1])
    /\ \E i, j \in 1..Len(reads) :
          /\ reads[i][1] = "imbalance" /\ loaded.y[i] = 3
          /\ reads[j][1] # "imbalance" /\ loaded.y[j] # 3
          /\ loaded.X[i] # loaded.X[j]

\* reading the file p = <<dir, name>> or extracting its features fails
Fails(p) ==
    \/ read_csv_axes(fs_root, p[1], p[2]).outcome # "return"
    \/ extract_features_from_sequence(read_csv_axes(fs_root, p[1], p[2]).value).outcome # "return"

\* C13: there is no partial failure.  Once the read or the extraction of a
\* file has failed, the loader has ended with that error and with no X and
\* no y; a loader that returns has read every sample file of the class
\* directories and none has failed; and a call of the extractor gives the
\* full vector of 6*A features or an error and no vector.
C13_NoPartialFailure ==
    /\ (\E i \in 1..Len(reads) : Fails(reads[i])) =>
          /\ pc = "raised"
          /\ loaded.outcome \in {"ParserError", "KeyError", "ValueError"}
          /\ loaded.X = <<>> /\ loaded.y = <<>>
    /\ pc = "returned" =>
          /\ \A p \in AllSamples : ~Fails(p)
          /\ Len(loaded.X) = Cardinality(AllSamples)
          /\ Len(loaded.y) = Cardinality(AllSamples)
    /\ features.outcome = "return" => Len(features.value) = 6 * NumAxes
    /\ features.outcome # "return" => features.value = <<>>

\* C13 witness: rows of bearing/ and of a first file of normal/ were
\* already appended when the second file of normal/ failed, and the
\* loader has raised.
C13_Witness ==
    /\ pc = "raised" /\ Len(X_list) >= 2
    /\ Len(reads) = 3 /\ Fails(reads[3]) /\ reads[3][1] = "normal"

\* C20: features and labels stay aligned.  After every iteration X_list
\* and y_list are equally long, the last row is the vector just extracted
\* and every label is the mapped label of the directory of the file read
\* at that index; and a loader that returns gives exactly one row and one
\* label per sample file of the recognized class directories, row i being
\* the features of the i-th file read.
C20_RowsAndLabelsAligned ==
    /\ Len(X_list) = Len(y_list) /\ Len(X_list) = Len(reads)
    /\ X_list # <<>> => X_list[Len(X_list)] = features.value
    /\ \A i \in 1..Len(y_list) : y_list[i] = condition_mapping[reads[i][1]]
    /\ pc = "returned" =>
          /\ Len(loaded.X) = Cardinality(AllSamples)
          /\ Len(loaded.y) = Cardinality(AllSamples)
          /\ \A p \in AllSamples : \E i \in 1..Len(reads) : reads[i] = p
          /\ \A i \in 1..Len(loaded.X) :
                /\ reads[i] \in AllSamples
                /\ loaded.X[i] = extract_features_from_sequence(
                                     read_csv_axes(fs_root, reads[i][1],
                                                   reads[i][2]).value).value
                /\ loaded.y[i] = condition_mapping[reads[i][1]]

\* C20 witness: the loader has returned three rows or more, two of them of
\* the files of one directory and one of another directory.
C20_Witness ==
    /\ pc = "returned" /\ Len(loaded.X) >= 3 /\ Len(loaded.y) = Len(loaded.X)
    /\ \E i, j, k \in 1..Len(reads) :
          /\ i # j /\ reads[i][1] = reads[j][1]
          /\ reads[k][1] # reads[i][1] /\ loaded.y[k] # loaded.y[i]

-----------------------------------------------------------------------------
(* Claims about the scalers                                                *)

\* the rows of X used as test data or held out for validation
HeldOut ==
    {test_idx[i] : i \in 1..Len(test_idx)} \cup {val_idx[i] : i \in 1..Len(val_idx)}

\* C14: in every script that standardizes, the scaler's mean and standard
\* deviation are computed from training samples only: no row that is used
\* as test data or held out for validation is among the rows of a fit.
C14_FitOnTrainingOnly ==
    \A k \in 1..Len(scaler_log) :
        scaler_log[k].op = "fit" => scaler_log[k].rows \cap HeldOut = {}

\* C15: a scaler that has been fit is never fit again: the first call is
\* the only fit, every later call is made with the parameters of that first
\* fit, and the scaler written to the scaler file holds them too.
C15_FitOnce ==
    /\ \A k \in 1..Len(scaler_log) :
          /\ scaler_log[k].op = "fit" => k = 1
          /\ scaler_log[k].params = scaler_log[1].params
    /\ scaler_log # <<>> => scaler = scaler_log[1].params
    /\ pickled.fitted => pickled = scaler_log[1].params

-----------------------------------------------------------------------------
(* Claims about the noise synthesis                                        *)

\* C16: seeded synthesis is idempotent: all calls of create_noise, and of
\* add_noise with a seed, on the same signal, noise level and seed have the
\* same outcome, whatever the state of the global generator before each
\* call and whatever was seeded or drawn between them.
C16_SeededIdempotent ==
    synth.seed # None => \A c1, c2 \in synthesized : c1.out = c2.out

\* C16 witness: two seeded calls of add_noise made with the generator in
\* states of different seed and position have both returned a signal of
\* noisy samples.
C16_Witness ==
    /\ synth.fn = "add_noise" /\ synth.seed # None
    /\ synth.noise_level > 0 /\ Len(synth.signal) >= 2
    /\ \E c1, c2 \in synthesized :
          /\ c1.rng.seed # c2.rng.seed /\ c1.rng.pos # c2.rng.pos
          /\ c1.out.outcome = "return" /\ c1.out.value # synth.signal

\* the generator as a call that seeds (or not) and draws one variate per
\* sample leaves it, from the state `before`
AfterDraws(before) ==
    np_random_advance(IF synth.seed # None THEN np_random_seed(synth.seed[1]) ELSE before,
                      Len(synth.signal))

\* C17: a noise level of 0 is not special-cased: for every level that is
\* not negative the call seeds (when given a seed) and draws len(signal)
\* variates, so that it leaves the generator in the one state that depends
\* on the seed and the length only; and at level 0 the signal returned is
\* the waveform itself.
C17_ZeroNotSpecial ==
    \A c \in synthesized :
        /\ synth.noise_level >= 0 => c.after = AfterDraws(c.rng)
        /\ synth.noise_level = 0 => c.out = [outcome |-> "return", value |-> synth.signal]

\* C17 witness: a seeded call at level 0 on a signal of two samples has
\* returned, the generator standing two draws behind the seeding, and not
\* where it stood before the call.
C17_Witness ==
    /\ synth.noise_level = 0 /\ synth.seed # None /\ Len(synth.signal) = 2
    /\ \E c \in synthesized :
          /\ c.out.outcome = "return"
          /\ c.after = [seed |-> synth.seed[1], pos |-> 2]
          /\ c.after # c.rng

\* C18: a negative noise standard deviation is rejected: every call made
\* with one has raised an error and returned no signal.
C18_NegativeRejected ==
    synth.noise_level < 0 =>
        /\ \A c \in synthesized : c.out.outcome = "ValueError" /\ c.out.value = <<>>
        /\ noisy.value = <<>>

\* C18 witness: a synthesis call with a negative level on a signal that is
\* not empty has raised.
C18_Witness ==
    /\ synth.noise_level < 0 /\ Len(synth.signal) >= 1
    /\ synthesized # {} /\ noisy.outcome = "ValueError"

-----------------------------------------------------------------------------
(* Claims about the generated series                                       *)

\* C19: every generated series keeps its channels as long as its time
\* grid: each array a chapter script has made has len(time) samples and
\* the frame of them is made without error; and whatever values the
\* widgets are set to, update_plots gives t, the clean, the noisy and the
\* filtered signal int(sample_rate * duration) samples each, also when the
\* filter window is as long as the signal.
C19_ChannelsAsLongAsTime ==
    /\ ch_pc.script \in DOMAIN ChapterStatements =>
          /\ \A k \in 1..(ch_pc.at - 1) :
                LET stmt == ChapterStatements[ch_pc.script][k]
                IN  stmt.op = "channel" =>
                       series[stmt.name].len = series[stmt.over].len
          /\ ch_pc.frame # "ValueError"
    /\ \A p \in Pages : plots[p].status \notin {"no_page", "empty"} =>
          /\ plots[p].status = "drawn"
          /\ plots[p].n_samples = (int(controls[p].sample_rate) * controls[p].duration) \div 10
          /\ plots[p].t = plots[p].n_samples
          /\ plots[p].clean_signal = plots[p].n_samples
          /\ plots[p].noisy_signal = plots[p].n_samples
          /\ plots[p].filtered_signal = plots[p].n_samples

\* C19 witness: the page has drawn a filtered noisy signal of 50 samples
\* with a filter window of 50.
C19_Witness ==
    /\ \E p \in Pages :
          /\ plots[p].status = "drawn" /\ plots[p].n_samples = 50
          /\ controls[p].filter_window = 50
          /\ controls[p].noise_enabled /\ controls[p].filter_enabled
          /\ plots[p].filtered_signal = 50

\* C26: the class names the loader returns are aligned with the labels:
\* for every i in 0..3, condition_names[i] is the class that
\* condition_mapping maps to label i.
C26_NamesAlignedWithLabels ==
    pc = "returned" =>
       /\ Len(loaded.condition_names) = 4
       /\ \A i \in 0..3 : condition_mapping[loaded.condition_names[i + 1]] = i

\* C28: the validation subset held out of what the loader returned, its
\* final 20% in the loader's order, holds a sample of every class the
\* training data holds.
C28_ValidationCoversClasses ==
    (pc = "returned" /\ loaded.y # <<>>) =>
       LET held_out == validation_split(loaded.y)
       IN  {held_out[i] : i \in DOMAIN held_out} = {loaded.y[i] : i \in DOMAIN loaded.y}

\* C30: the loader raises whenever it would otherwise return no samples:
\* for a root without subdirectories, for a root none of whose
\* subdirectories has a recognized class name, and for one whose class
\* directories hold no sample file, it ends raising and does not return an
\* empty X and y.
C30_RaisesWhenNoSamples ==
    /\ (Finished /\ AllSamples = {}) => pc = "raised"
    /\ pc = "returned" => Len(loaded.X) > 0 /\ Len(loaded.y) > 0

-----------------------------------------------------------------------------
(* Claims about the chapter scripts' data                                  *)

\* The arrays the first k statements of a chapter make, the generator
\* standing at g before the first
RECURSIVE RunChapter(_, _, _)
RunChapter(chapter, k, g) ==
    IF k = 0 THEN [rng |-> g, arrays |-> <<>>]
    ELSE LET before == RunChapter(chapter, k - 1, g)
         IN  ChapterStep(ChapterStatements[chapter][k], before.rng, before.arrays)

Sensors == {"temperature", "vibration", "pressure", "current"}

\* The position in the generator at which chapter01.py draws a channel
Chapter1Draw ==
       ("temperature" :> [seed |-> 42, pos |-> 0, scale |-> 20, size |-> 1000])
    @@ ("vibration" :> [seed |-> 42, pos |-> 1000, scale |-> 5, size |-> 1000])
    @@ ("pressure" :> [seed |-> 42, pos |-> 2000, scale |-> 100, size |-> 1000])
    @@ ("current" :> [seed |-> 42, pos |-> 3000, scale |-> 10, size |-> 1000])

\* C25: chapters 2, 3 and 4 regenerate the data set of chapter 1.  Each
\* channel one of them has made is, sample for sample, the channel
\* chapter01.py makes whatever state its generator starts in: the same
\* expression of the same time grid plus the same 1000 draws, those the
\* generator seeded with 42 gives at positions 0, 1000, 2000 and 3000 for
\* temperature, vibration, pressure and current.
C25_ChaptersRegenerateData ==
    ch_pc.script \in {"chapter02", "chapter03", "chapter04"} =>
       \A name \in Sensors \cap DOMAIN series :
          /\ \A s \in Seeds :
                series[name] = RunChapter("chapter01", Len(chapter01_statements),
                                          np_random_seed(s)).arrays[name]
          /\ series[name].noise = <<Chapter1Draw[name]>>
          /\ series[name].len = 1000
          /\ series["time"] = RunChapter("chapter01", 2, np_random_seed(42)).arrays["time"]

\* C25 witness: chapter04.py, started with a generator seeded otherwise,
\* has made its four channels and gone on to draw the new data.
C25_Witness ==
    /\ ch_pc.script = "chapter04"
    /\ Sensors \subseteq DOMAIN series
    /\ "new_current" \in DOMAIN series
    /\ series["new_current"].noise[1].pos > 4000

-----------------------------------------------------------------------------
(* Claims about the pages of the GUI                                       *)

\* C21: real-time update.  Whenever a control of a page has changed and
\* the handler of the change has run, the time plot, the frequency plot
\* and the statistics of that page are those update_plots computes from
\* the values the page's controls now have.
C21_DisplayFollowsControls ==
    [][\A p \in Pages :
          controls'[p] # controls[p] => plots'[p] = update_plots(controls'[p])]_vars

\* The nine parameters update_plots reads from widgets whose values are c
ParametersRead(c) == [c EXCEPT !.sample_rate = int(@)]

\* C22: reset_to_defaults, from any values of the controls, leaves the nine
\* parameters update_plots reads equal to DEFAULT_PARAMS and the display
\* drawn for those; and a second reset would change nothing: not the
\* widgets, not the display, not the generator.
C22_ResetToDefaults ==
    [][ResetToDefaults =>
          LET c == controls'[globals]
          IN  /\ ParametersRead(c) = DEFAULT_PARAMS
              /\ plots'[globals] = update_plots(InitialValues)
              /\ plots'[globals].status = "drawn"
              /\ reset_to_defaults(c) = c
              /\ update_plots(reset_to_defaults(c)) = plots'[globals]
              /\ update_plots_rng(reset_to_defaults(c), np_random') = np_random']_vars

\* C22 witness: a reset has acted (the sample-rate field holds the string
\* it writes) and the page shows the plots of the default parameters.
C22_Witness ==
    \E p \in Pages :
       /\ controls[p].sample_rate = str(DEFAULT_PARAMS.sample_rate)
       /\ ParametersRead(controls[p]) = DEFAULT_PARAMS
       /\ plots[p].status = "drawn" /\ plots[p] = update_plots(controls[p])

\* C23: export_plot exports the current plots.  For the values the
\* controls have when the button is pressed, the clean, noisy and filtered
\* signal and the three positive-frequency spectra of the figure saved are
\* those update_plots derives for these values, and the curves of its two
\* axes are the curves of the time plot and of the frequency plot on
\* display.
C23_ExportShowsDisplay ==
    [][ExportPlot =>
          LET c == controls[globals]
          IN  /\ exported'.signals = update_plots(c).signals
              /\ exported'.ffts = update_plots(c).ffts
              /\ exported'.ax1.curves = update_plots(c).time_plot.curves
              /\ exported'.ax2.curves = update_plots(c).freq_plot.curves
              /\ plots[globals].status = "drawn" =>
                    /\ exported'.ax1 = plots[globals].time_plot
                    /\ exported'.ax2 = plots[globals].freq_plot]_vars

\* C23 witness: a figure was exported of a page whose noise is off and
\* whose filter is on, and of which the display is drawn.
C23_Witness ==
    /\ exported.saved
    /\ globals # "none"
    /\ ~controls[globals].noise_enabled /\ controls[globals].filter_enabled
    /\ plots[globals].status = "drawn"
    /\ exported.ax1 = plots[globals].time_plot

\* What find_free_port has returned, once it has
FindReturned == main_pc \in {"returned", "ui_run"}

\* C24: find_free_port(3030) tries the ports 3030, 3031, ... in this order,
\* ten at most, and stops at the first bind that succeeds: what it returns
\* is the lowest port of 3030..3039 on which its bind succeeded, and None
\* only after ten binds that all failed; it does return; and ui.run is
\* called with the port returned, or with 3030 when that was None.
C24_FindFreePort ==
    /\ [](/\ Len(attempts) <= 10
          /\ \A k \in 1..Len(attempts) :
                /\ attempts[k].port = 3030 + (k - 1)
                /\ attempts[k].bound => k = Len(attempts)
          /\ (FindReturned /\ attempts[Len(attempts)].bound) =>
                /\ main_pc = "returned" => port = Some(attempts[Len(attempts)].port)
                /\ serving # None => serving = Some(attempts[Len(attempts)].port)
          /\ (FindReturned /\ ~attempts[Len(attempts)].bound) =>
                /\ Len(attempts) = 10
                /\ main_pc = "returned" => port = None
                /\ serving # None => serving = Some(3030)
          /\ serving # None <=> main_pc = "ui_run")
    /\ <>FindReturned

\* C24 witness: the server runs on a port above 3030 that find_free_port
\* returned after binds that failed.
C24_Witness ==
    /\ main_pc = "ui_run"
    /\ Len(attempts) >= 3
    /\ attempts[Len(attempts)].bound
    /\ serving = Some(attempts[Len(attempts)].port)

\* C27: two pages do not interfere.  A control change on one page writes
\* to no element of another page, and what it writes to its own elements
\* is computed from its own controls.
C27_PagesIsolated ==
    [][\A p \in Pages :
          controls'[p] # controls[p] =>
             \A q \in Pages :
                plots'[q] # plots[q] =>
                   q = p /\ plots'[q] = update_plots(controls'[p])]_vars

\* The statistics written hold a block of this title
HasBlock(text, title) == \E i \in DOMAIN text : text[i].block = title

\* C29: in what update_plots has written, for every combination of the
\* noise and filter switches: the statistics hold the noisy block iff noise
\* is enabled and the filtered block iff noise and filter are both enabled,
\* the SNR of each block written is a number and not None (no formatting
\* of None has raised), and with noise disabled the noisy and the filtered
\* signal are the clean signal whatever the filter switch.
C29_StatisticsBlocks ==
    \A p \in Pages : plots[p].status \notin {"no_page", "empty"} =>
       LET text == plots[p].stats_label
           c == controls[p]
       IN  /\ plots[p].status = "drawn"
           /\ HasBlock(text, "Clean Signal")
           /\ HasBlock(text, "Noisy Signal") <=> c.noise_enabled
           /\ HasBlock(text, "Filtered Signal") <=> (c.noise_enabled /\ c.filter_enabled)
           /\ \A i \in DOMAIN text : text[i].snr # None
           /\ ~c.noise_enabled =>
                 /\ plots[p].signals[2] = plots[p].signals[1]
                 /\ plots[p].signals[3] = plots[p].signals[1]

\* C29 witness: update_plots has run with noise disabled and the filter
\* enabled, and has written the clean block alone.
C29_Witness ==
    \E p \in Pages :
       /\ plots[p].status = "drawn"
       /\ ~controls[p].noise_enabled /\ controls[p].filter_enabled
       /\ Len(plots[p].stats_label) = 1
       /\ plots[p].signals[3] = plots[p].signals[1]

====
